---- MODULE Spec2Model ----
\* Model of the study-application backend: the HTTP routes of crud.py, the
\* service layer of db_functions.py over the tables of database.py, and the
\* bearer-token authentication of auth.py.
EXTENDS Integers, FiniteSets, Sequences, Bags, TLC

\* ------------------------------------------------------------------------
\* Bounds of the model
\* ------------------------------------------------------------------------
\* ids handed out by the usuarios sequence
MaxUsuarios == 2
\* ids handed out, in total, by the tareas, cronograma and estado_animo sequences
MaxRegistros == 1
\* ids handed out by the tutorias sequence
MaxTutorias == 1
\* rows of usuario_tutorias stored at a time
MaxParticipaciones == 1
\* user creations in flight at once
MaxEnCurso == 2

\* ------------------------------------------------------------------------
\* Values
\* ------------------------------------------------------------------------
\* Python's None in an integer-typed field or parameter
NoneInt == -1
\* Python's None in a string-typed field or parameter
NoneStr == "None"
\* a bearer token that does not decode (bad signature, expired, no subject)
BadToken == "bad"

Nombres == {"n1", "n2"}
Emails == {"e1", "e2"}
Passwords == {"p1"}
Salts == {"s1"}

\* rol_id == 1 is the administrator in every permission check of crud.py
ADMIN == 1
\* rol_id == 3 is the tutor role (crud.py: rol_id not in [1, 3])
TUTOR == 3

\* the three status values of a task
EstadoTarea == {"pendiente", "en_progreso", "completada"}
RolTutoria == {"tutor", "estudiante"}

\* Python truthiness of an Optional[int]: None and 0 are falsy
Truthy(x) == x # NoneInt /\ x # 0

VARIABLES
    roles,              \* table roles
    usuarios,           \* table usuarios
    tareas,             \* table tareas
    cronograma,         \* table cronograma
    estado_animo,       \* table estado_animo
    tutorias,           \* table tutorias
    usuario_tutorias,   \* table usuario_tutorias
    seq,                \* next value of each table's id sequence
    tokens,             \* subjects of the access tokens issued so far
    emitidos,           \* log of token issuance: subject and user_info.id
    en_curso,           \* user creations past their checks, not yet inserted
    resp                \* the last request and its response

tables == <<roles, usuarios, tareas, cronograma, estado_animo, tutorias, usuario_tutorias, seq>>
vars == <<roles, usuarios, tareas, cronograma, estado_animo, tutorias, usuario_tutorias, seq, tokens, emitidos, en_curso, resp>>

\* roles inserted by init_db at startup, ids 1..3 in insertion order
roles_default ==
    { [id |-> 1, nombre |-> "Administrador"],
      [id |-> 2, nombre |-> "Estudiante"],
      [id |-> 3, nombre |-> "Tutor"] }

RolIds == {r.id : r \in roles}

\* get_password_hash that hands the plaintext back, marked as not hashed
get_password_hash_texto_plano(password, salt) == <<"plain", salt, password>>

\* pwd_context.hash: a salted hash, never the plaintext
get_password_hash(password, salt) == <<"pbkdf2_sha256", salt, password>>

\* pwd_context.verify
verify_password(plain_password, hashed_password) ==
    /\ Len(hashed_password) = 3
    /\ hashed_password[1] = "pbkdf2_sha256"
    /\ hashed_password[3] = plain_password

\* ------------------------------------------------------------------------
\* Service layer: usuarios
\* ------------------------------------------------------------------------
\* the response model Usuario: the row without its password
db_usuario_to_pydantic(u) ==
    [id |-> u.id, nombre |-> u.nombre, email |-> u.email, rol_id |-> u.rol_id]

get_usuarios == {db_usuario_to_pydantic(u) : u \in usuarios}

\* rows with this id (none or one)
UsuarioRow(usuario_id) == {u \in usuarios : u.id = usuario_id}

get_usuario_by_id(usuario_id) == {db_usuario_to_pydantic(u) : u \in UsuarioRow(usuario_id)}

get_usuario_by_email(email) == {u \in usuarios : u.email = email}

obtener_usuario_por_email(email) == get_usuario_by_email(email)

\* the foreign key usuarios.rol_id -> roles.id, checked by the engine at commit
FkRolOk(rol_id) == rol_id = NoneInt \/ rol_id \in RolIds

\* Result of a service call on usuarios: exc is "none" or the exception raised.
\* An insert refused by the engine has already drawn its id from the sequence.
crear_usuario_con_hash(usuario, password_hash) ==
    IF get_usuario_by_email(usuario.email) # {}
    THEN [exc |-> "ValueError", usuarios |-> usuarios, seq |-> seq, ret |-> {}]
    ELSE IF Truthy(usuario.rol_id) /\ usuario.rol_id \notin RolIds
    THEN [exc |-> "KeyError", usuarios |-> usuarios, seq |-> seq, ret |-> {}]
    ELSE IF ~FkRolOk(usuario.rol_id)
    THEN [exc |-> "IntegrityError", usuarios |-> usuarios,
          seq |-> [seq EXCEPT !.usuarios = @ + 1], ret |-> {}]
    ELSE LET db_usuario == [id |-> seq.usuarios, nombre |-> usuario.nombre,
                            email |-> usuario.email, password |-> password_hash,
                            rol_id |-> usuario.rol_id]
         IN [exc |-> "none", usuarios |-> usuarios \cup {db_usuario},
             seq |-> [seq EXCEPT !.usuarios = @ + 1],
             ret |-> {db_usuario_to_pydantic(db_usuario)}]

\* update_usuario without the check that the new email is free
update_usuario_sin_email_unico(usuario_id, usuario_update) ==
    IF UsuarioRow(usuario_id) = {}
    THEN [exc |-> "KeyError", usuarios |-> usuarios, ret |-> {}]
    ELSE IF Truthy(usuario_update.rol_id) /\ usuario_update.rol_id \notin RolIds
    THEN [exc |-> "KeyError", usuarios |-> usuarios, ret |-> {}]
    ELSE LET old == CHOOSE u \in UsuarioRow(usuario_id) : TRUE
             new == [old EXCEPT
                       !.nombre = IF usuario_update.nombre # NoneStr
                                  THEN usuario_update.nombre ELSE @,
                       !.email = IF usuario_update.email # NoneStr
                                 THEN usuario_update.email ELSE @,
                       !.rol_id = IF usuario_update.rol_id # NoneInt
                                  THEN usuario_update.rol_id ELSE @]
         IN IF ~FkRolOk(new.rol_id)
            THEN [exc |-> "IntegrityError", usuarios |-> usuarios, ret |-> {}]
            ELSE [exc |-> "none", usuarios |-> (usuarios \ {old}) \cup {new},
                  ret |-> {db_usuario_to_pydantic(new)}]

update_usuario(usuario_id, usuario_update) ==
    IF UsuarioRow(usuario_id) = {}
    THEN [exc |-> "KeyError", usuarios |-> usuarios, ret |-> {}]
    ELSE IF /\ usuario_update.email # NoneStr
            /\ \E e \in get_usuario_by_email(usuario_update.email) : e.id # usuario_id
    THEN [exc |-> "ValueError", usuarios |-> usuarios, ret |-> {}]
    ELSE IF Truthy(usuario_update.rol_id) /\ usuario_update.rol_id \notin RolIds
    THEN [exc |-> "KeyError", usuarios |-> usuarios, ret |-> {}]
    ELSE LET old == CHOOSE u \in UsuarioRow(usuario_id) : TRUE
             new == [old EXCEPT
                       !.nombre = IF usuario_update.nombre # NoneStr
                                  THEN usuario_update.nombre ELSE @,
                       !.email = IF usuario_update.email # NoneStr
                                 THEN usuario_update.email ELSE @,
                       !.rol_id = IF usuario_update.rol_id # NoneInt
                                  THEN usuario_update.rol_id ELSE @]
         IN IF ~FkRolOk(new.rol_id)
            THEN [exc |-> "IntegrityError", usuarios |-> usuarios, ret |-> {}]
            ELSE [exc |-> "none", usuarios |-> (usuarios \ {old}) \cup {new},
                  ret |-> {db_usuario_to_pydantic(new)}]

\* delete_usuario without the cascade to the rows of the user
delete_usuario_sin_cascada(usuario_id) ==
    IF UsuarioRow(usuario_id) = {}
    THEN [exc |-> "KeyError", usuarios |-> usuarios, tareas |-> tareas,
          cronograma |-> cronograma, estado_animo |-> estado_animo,
          usuario_tutorias |-> usuario_tutorias]
    ELSE [exc |-> "none",
          usuarios |-> {u \in usuarios : u.id # usuario_id},
          tareas |-> tareas, cronograma |-> cronograma, estado_animo |-> estado_animo,
          usuario_tutorias |-> usuario_tutorias]

\* db.delete(db_usuario): the ORM relationships of Usuario cascade the delete
\* to its tareas, cronograma, estados_animo and participaciones_tutorias
delete_usuario(usuario_id) ==
    IF UsuarioRow(usuario_id) = {}
    THEN [exc |-> "KeyError", usuarios |-> usuarios, tareas |-> tareas,
          cronograma |-> cronograma, estado_animo |-> estado_animo,
          usuario_tutorias |-> usuario_tutorias]
    ELSE [exc |-> "none",
          usuarios |-> {u \in usuarios : u.id # usuario_id},
          tareas |-> {t \in tareas : t.usuario_id # usuario_id},
          cronograma |-> {c \in cronograma : c.usuario_id # usuario_id},
          estado_animo |-> {e \in estado_animo : e.usuario_id # usuario_id},
          usuario_tutorias |-> {ut \in usuario_tutorias : ut.usuario_id # usuario_id}]

\* ------------------------------------------------------------------------
\* Service layer: tareas
\* ------------------------------------------------------------------------
get_tareas(usuario_id, estado) ==
    {t \in tareas : /\ Truthy(usuario_id) => t.usuario_id = usuario_id
                    /\ estado # NoneStr => t.estado = estado}

get_tarea_by_id(tarea_id) == {t \in tareas : t.id = tarea_id}

create_tarea(tarea) ==
    IF UsuarioRow(tarea.usuario_id) = {}
    THEN [exc |-> "KeyError", tareas |-> tareas, seq |-> seq, ret |-> {}]
    ELSE LET db_tarea == [id |-> seq.tareas, titulo |-> tarea.titulo,
                          descripcion |-> tarea.descripcion,
                          fecha_entrega |-> tarea.fecha_entrega,
                          estado |-> tarea.estado, usuario_id |-> tarea.usuario_id]
         IN [exc |-> "none", tareas |-> tareas \cup {db_tarea},
             seq |-> [seq EXCEPT !.tareas = @ + 1], ret |-> {db_tarea}]

update_tarea(tarea_id, tarea_update) ==
    IF get_tarea_by_id(tarea_id) = {}
    THEN [exc |-> "KeyError", tareas |-> tareas, ret |-> {}]
    ELSE LET old == CHOOSE t \in get_tarea_by_id(tarea_id) : TRUE
             new == [old EXCEPT
                       !.titulo = IF tarea_update.titulo # NoneStr
                                  THEN tarea_update.titulo ELSE @,
                       !.descripcion = IF tarea_update.descripcion # NoneStr
                                       THEN tarea_update.descripcion ELSE @,
                       !.fecha_entrega = IF tarea_update.fecha_entrega # NoneInt
                                         THEN tarea_update.fecha_entrega ELSE @,
                       !.estado = IF tarea_update.estado # NoneStr
                                  THEN tarea_update.estado ELSE @]
         IN [exc |-> "none", tareas |-> (tareas \ {old}) \cup {new}, ret |-> {new}]

delete_tarea(tarea_id) ==
    IF get_tarea_by_id(tarea_id) = {}
    THEN [exc |-> "KeyError", tareas |-> tareas]
    ELSE [exc |-> "none", tareas |-> {t \in tareas : t.id # tarea_id}]

\* ------------------------------------------------------------------------
\* Service layer: cronograma
\* ------------------------------------------------------------------------
get_cronograma(usuario_id, fecha_inicio, fecha_fin) ==
    {c \in cronograma : /\ Truthy(usuario_id) => c.usuario_id = usuario_id
                        /\ fecha_inicio # NoneInt => c.fecha_inicio >= fecha_inicio
                        /\ fecha_fin # NoneInt => c.fecha_fin <= fecha_fin}

get_cronograma_by_id(cronograma_id) == {c \in cronograma : c.id = cronograma_id}

create_cronograma(evento) ==
    IF UsuarioRow(evento.usuario_id) = {}
    THEN [exc |-> "KeyError", cronograma |-> cronograma, seq |-> seq, ret |-> {}]
    ELSE IF evento.fecha_inicio >= evento.fecha_fin
    THEN [exc |-> "ValueError", cronograma |-> cronograma, seq |-> seq, ret |-> {}]
    ELSE LET db_cronograma == [id |-> seq.cronograma, titulo |-> evento.titulo,
                               descripcion |-> evento.descripcion,
                               fecha_inicio |-> evento.fecha_inicio,
                               fecha_fin |-> evento.fecha_fin,
                               usuario_id |-> evento.usuario_id]
         IN [exc |-> "none", cronograma |-> cronograma \cup {db_cronograma},
             seq |-> [seq EXCEPT !.cronograma = @ + 1], ret |-> {db_cronograma}]

\* update_cronograma without the validation of the merged dates
update_cronograma_sin_validar(cronograma_id, cronograma_update) ==
    IF get_cronograma_by_id(cronograma_id) = {}
    THEN [exc |-> "KeyError", cronograma |-> cronograma, ret |-> {}]
    ELSE LET old == CHOOSE c \in get_cronograma_by_id(cronograma_id) : TRUE
             new == [old EXCEPT
                       !.titulo = IF cronograma_update.titulo # NoneStr
                                  THEN cronograma_update.titulo ELSE @,
                       !.descripcion = IF cronograma_update.descripcion # NoneStr
                                       THEN cronograma_update.descripcion ELSE @,
                       !.fecha_inicio = IF cronograma_update.fecha_inicio # NoneInt
                                        THEN cronograma_update.fecha_inicio ELSE @,
                       !.fecha_fin = IF cronograma_update.fecha_fin # NoneInt
                                     THEN cronograma_update.fecha_fin ELSE @]
         IN [exc |-> "none", cronograma |-> (cronograma \ {old}) \cup {new},
             ret |-> {new}]

\* the fields are set on the session's object and validated before the commit:
\* a ValueError leaves the session uncommitted, so the table keeps the old row
update_cronograma(cronograma_id, cronograma_update) ==
    IF get_cronograma_by_id(cronograma_id) = {}
    THEN [exc |-> "KeyError", cronograma |-> cronograma, ret |-> {}]
    ELSE LET old == CHOOSE c \in get_cronograma_by_id(cronograma_id) : TRUE
             new == [old EXCEPT
                       !.titulo = IF cronograma_update.titulo # NoneStr
                                  THEN cronograma_update.titulo ELSE @,
                       !.descripcion = IF cronograma_update.descripcion # NoneStr
                                       THEN cronograma_update.descripcion ELSE @,
                       !.fecha_inicio = IF cronograma_update.fecha_inicio # NoneInt
                                        THEN cronograma_update.fecha_inicio ELSE @,
                       !.fecha_fin = IF cronograma_update.fecha_fin # NoneInt
                                     THEN cronograma_update.fecha_fin ELSE @]
         IN IF new.fecha_inicio >= new.fecha_fin
            THEN [exc |-> "ValueError", cronograma |-> cronograma, ret |-> {}]
            ELSE [exc |-> "none", cronograma |-> (cronograma \ {old}) \cup {new},
                  ret |-> {new}]

delete_cronograma(cronograma_id) ==
    IF get_cronograma_by_id(cronograma_id) = {}
    THEN [exc |-> "KeyError", cronograma |-> cronograma]
    ELSE [exc |-> "none", cronograma |-> {c \in cronograma : c.id # cronograma_id}]

\* ------------------------------------------------------------------------
\* Service layer: estado_animo
\* ------------------------------------------------------------------------
\* date.today() on the day of the run
Today == 2

get_estados_animo(usuario_id, fecha_desde, fecha_hasta) ==
    {e \in estado_animo : /\ Truthy(usuario_id) => e.usuario_id = usuario_id
                          /\ fecha_desde # NoneInt => e.fecha >= fecha_desde
                          /\ fecha_hasta # NoneInt => e.fecha <= fecha_hasta}

get_estado_animo_by_id(estado_id) == {e \in estado_animo : e.id = estado_id}

\* create_estado_animo that returns the payload's fecha instead of the stored one
create_estado_animo_devuelve_payload(estado) ==
    IF UsuarioRow(estado.usuario_id) = {}
    THEN [exc |-> "KeyError", estado_animo |-> estado_animo, seq |-> seq, ret |-> {}]
    ELSE LET db_estado == [id |-> seq.estado_animo, usuario_id |-> estado.usuario_id,
                           fecha |-> IF estado.fecha # NoneInt THEN estado.fecha ELSE Today,
                           estado |-> estado.estado, comentario |-> estado.comentario]
         IN [exc |-> "none", estado_animo |-> estado_animo \cup {db_estado},
             seq |-> [seq EXCEPT !.estado_animo = @ + 1],
             ret |-> {[db_estado EXCEPT !.fecha = estado.fecha]}]

create_estado_animo(estado) ==
    IF UsuarioRow(estado.usuario_id) = {}
    THEN [exc |-> "KeyError", estado_animo |-> estado_animo, seq |-> seq, ret |-> {}]
    ELSE LET db_estado == [id |-> seq.estado_animo, usuario_id |-> estado.usuario_id,
                           fecha |-> IF estado.fecha # NoneInt THEN estado.fecha ELSE Today,
                           estado |-> estado.estado, comentario |-> estado.comentario]
         IN [exc |-> "none", estado_animo |-> estado_animo \cup {db_estado},
             seq |-> [seq EXCEPT !.estado_animo = @ + 1], ret |-> {db_estado}]

\* update_estado_animo that copies comentario even when the payload leaves it out
update_estado_animo_pisa_comentario(estado_id, estado_update) ==
    IF get_estado_animo_by_id(estado_id) = {}
    THEN [exc |-> "KeyError", estado_animo |-> estado_animo, ret |-> {}]
    ELSE LET old == CHOOSE e \in get_estado_animo_by_id(estado_id) : TRUE
             new == [old EXCEPT
                       !.estado = IF estado_update.estado # NoneStr
                                  THEN estado_update.estado ELSE @,
                       !.comentario = estado_update.comentario]
         IN [exc |-> "none", estado_animo |-> (estado_animo \ {old}) \cup {new},
             ret |-> {new}]

update_estado_animo(estado_id, estado_update) ==
    IF get_estado_animo_by_id(estado_id) = {}
    THEN [exc |-> "KeyError", estado_animo |-> estado_animo, ret |-> {}]
    ELSE LET old == CHOOSE e \in get_estado_animo_by_id(estado_id) : TRUE
             new == [old EXCEPT
                       !.estado = IF estado_update.estado # NoneStr
                                  THEN estado_update.estado ELSE @,
                       !.comentario = IF estado_update.comentario # NoneStr
                                      THEN estado_update.comentario ELSE @]
         IN [exc |-> "none", estado_animo |-> (estado_animo \ {old}) \cup {new},
             ret |-> {new}]

delete_estado_animo(estado_id) ==
    IF get_estado_animo_by_id(estado_id) = {}
    THEN [exc |-> "KeyError", estado_animo |-> estado_animo]
    ELSE [exc |-> "none", estado_animo |-> {e \in estado_animo : e.id # estado_id}]

\* ------------------------------------------------------------------------
\* Service layer: tutorias and usuario_tutorias
\* ------------------------------------------------------------------------
\* the response model Tutoria: the row with its participantes
db_tutoria_to_pydantic(t) ==
    [id |-> t.id, tema |-> t.tema, descripcion |-> t.descripcion, fecha |-> t.fecha,
     participantes |-> {<<ut.usuario_id, ut.rol_en_tutoria>> :
                           ut \in {x \in usuario_tutorias : x.tutoria_id = t.id}}]

get_tutorias == {db_tutoria_to_pydantic(t) : t \in tutorias}

TutoriaRow(tutoria_id) == {t \in tutorias : t.id = tutoria_id}

get_tutoria_by_id(tutoria_id) == {db_tutoria_to_pydantic(t) : t \in TutoriaRow(tutoria_id)}

create_tutoria(tutoria) ==
    LET db_tutoria == [id |-> seq.tutorias, tema |-> tutoria.tema,
                       descripcion |-> tutoria.descripcion, fecha |-> tutoria.fecha]
    IN [exc |-> "none", tutorias |-> tutorias \cup {db_tutoria},
        seq |-> [seq EXCEPT !.tutorias = @ + 1],
        ret |-> {[db_tutoria EXCEPT !.id = @] @@ [participantes |-> {}]}]

update_tutoria(tutoria_id, tutoria_update) ==
    IF TutoriaRow(tutoria_id) = {}
    THEN [exc |-> "KeyError", tutorias |-> tutorias, ret |-> {}]
    ELSE LET old == CHOOSE t \in TutoriaRow(tutoria_id) : TRUE
             new == [old EXCEPT
                       !.tema = IF tutoria_update.tema # NoneStr
                                THEN tutoria_update.tema ELSE @,
                       !.descripcion = IF tutoria_update.descripcion # NoneStr
                                       THEN tutoria_update.descripcion ELSE @,
                       !.fecha = IF tutoria_update.fecha # NoneInt
                                 THEN tutoria_update.fecha ELSE @]
         IN [exc |-> "none", tutorias |-> (tutorias \ {old}) \cup {new},
             ret |-> {[new EXCEPT !.id = @] @@
                        [participantes |-> (CHOOSE x \in get_tutoria_by_id(tutoria_id) : TRUE).participantes]}]

\* delete_tutoria without the cascade to the participations
delete_tutoria_sin_cascada(tutoria_id) ==
    IF TutoriaRow(tutoria_id) = {}
    THEN [exc |-> "KeyError", tutorias |-> tutorias, usuario_tutorias |-> usuario_tutorias]
    ELSE [exc |-> "none",
          tutorias |-> {t \in tutorias : t.id # tutoria_id},
          usuario_tutorias |-> usuario_tutorias]

\* db.delete(db_tutoria): the relationship participantes cascades the delete
delete_tutoria(tutoria_id) ==
    IF TutoriaRow(tutoria_id) = {}
    THEN [exc |-> "KeyError", tutorias |-> tutorias, usuario_tutorias |-> usuario_tutorias]
    ELSE [exc |-> "none",
          tutorias |-> {t \in tutorias : t.id # tutoria_id},
          usuario_tutorias |-> {ut \in usuario_tutorias : ut.tutoria_id # tutoria_id}]

\* add_usuario_tutoria without the query for the existing combination
add_usuario_tutoria_sin_existing(usuario_tutoria) ==
    IF UsuarioRow(usuario_tutoria.usuario_id) = {}
    THEN [exc |-> "KeyError", usuario_tutorias |-> usuario_tutorias]
    ELSE IF TutoriaRow(usuario_tutoria.tutoria_id) = {}
    THEN [exc |-> "KeyError", usuario_tutorias |-> usuario_tutorias]
    ELSE [exc |-> "none", usuario_tutorias |-> usuario_tutorias \cup {usuario_tutoria}]

add_usuario_tutoria(usuario_tutoria) ==
    IF UsuarioRow(usuario_tutoria.usuario_id) = {}
    THEN [exc |-> "KeyError", usuario_tutorias |-> usuario_tutorias]
    ELSE IF TutoriaRow(usuario_tutoria.tutoria_id) = {}
    THEN [exc |-> "KeyError", usuario_tutorias |-> usuario_tutorias]
    ELSE IF usuario_tutoria \in usuario_tutorias
    THEN [exc |-> "ValueError", usuario_tutorias |-> usuario_tutorias]
    ELSE [exc |-> "none", usuario_tutorias |-> usuario_tutorias \cup {usuario_tutoria}]

remove_usuario_tutoria(usuario_id, tutoria_id, rol_en_tutoria) ==
    LET db_usuario_tutoria == [usuario_id |-> usuario_id, tutoria_id |-> tutoria_id,
                               rol_en_tutoria |-> rol_en_tutoria]
    IN IF db_usuario_tutoria \notin usuario_tutorias
       THEN [exc |-> "KeyError", usuario_tutorias |-> usuario_tutorias]
       ELSE [exc |-> "none", usuario_tutorias |-> usuario_tutorias \ {db_usuario_tutoria}]

\* ------------------------------------------------------------------------
\* Authentication
\* ------------------------------------------------------------------------
authenticate_user(email, password) ==
    {u \in obtener_usuario_por_email(email) : verify_password(password, u.password)}

\* get_current_user that accepts a token it cannot decode
get_current_user_sin_decode(token) ==
    IF token = BadToken THEN usuarios ELSE obtener_usuario_por_email(token)

\* the users a bearer token resolves to (none: the request is answered 401)
get_current_user(token) ==
    IF token = BadToken THEN {} ELSE obtener_usuario_por_email(token)

get_current_active_user(token) == get_current_user(token)

\* what a client can send as bearer token
Bearers == tokens \cup {BadToken}

Response(op, status, caller, arg, body) ==
    [op |-> op, status |-> status, caller |-> caller, arg |-> arg, body |-> body]

\* the answer of a protected route to a token that resolves to no user
Unauthorized(op) ==
    /\ resp' = Response(op, 401, 0, NoneInt, {})
    /\ UNCHANGED <<tables, tokens, emitidos, en_curso>>

Init ==
    /\ roles = roles_default
    /\ usuarios = {}
    /\ tareas = {}
    /\ cronograma = {}
    /\ estado_animo = {}
    /\ tutorias = {}
    /\ usuario_tutorias = {}
    /\ seq = [usuarios |-> 1, tareas |-> 1, cronograma |-> 1, estado_animo |-> 1, tutorias |-> 1]
    /\ tokens = {}
    /\ emitidos = {}
    /\ en_curso = {}
    /\ resp = Response("none", 0, 0, NoneInt, {})

\* ------------------------------------------------------------------------
\* Routes: authentication
\* ------------------------------------------------------------------------
\* POST /auth/register: no current_user dependency, any exception is answered 400
registrar_usuario(payload, salt) ==
    IF obtener_usuario_por_email(payload.email) # {}
    THEN [status |-> 400, usuarios |-> usuarios, seq |-> seq, body |-> {}]
    ELSE LET r == crear_usuario_con_hash(payload, get_password_hash(payload.password, salt))
         IN [status |-> IF r.exc = "none" THEN 201 ELSE 400,
             usuarios |-> r.usuarios, seq |-> r.seq, body |-> r.ret]

\* login that looks the user up by email and leaves the password unverified
login_sin_verificar(email, password) ==
    LET user == obtener_usuario_por_email(email)
    IN IF user = {}
       THEN [status |-> 401, tokens |-> tokens, body |-> {}]
       ELSE [status |-> 200, tokens |-> tokens \cup {(CHOOSE u \in user : TRUE).email},
             body |-> {db_usuario_to_pydantic(u) : u \in user}]

\* POST /auth/login: the token is kept by its subject, body is user_info
login(email, password) ==
    LET user == authenticate_user(email, password)
    IN IF user = {}
       THEN [status |-> 401, tokens |-> tokens, body |-> {}]
       ELSE [status |-> 200, tokens |-> tokens \cup {(CHOOSE u \in user : TRUE).email},
             body |-> {db_usuario_to_pydantic(u) : u \in user}]

\* POST /auth/login-form: username is the email
login_form(username, password) ==
    LET user == authenticate_user(username, password)
    IN IF user = {}
       THEN [status |-> 401, tokens |-> tokens, body |-> {}]
       ELSE [status |-> 200, tokens |-> tokens \cup {(CHOOSE u \in user : TRUE).email},
             body |-> {db_usuario_to_pydantic(u) : u \in user}]

\* ------------------------------------------------------------------------
\* Routes: /usuarios
\* ------------------------------------------------------------------------
listar_usuarios(current_user) ==
    IF current_user.rol_id # ADMIN
    THEN [status |-> 403, body |-> {}]
    ELSE [status |-> 200, body |-> get_usuarios]

obtener_usuario(current_user, usuario_id) ==
    IF current_user.rol_id # ADMIN /\ current_user.id # usuario_id
    THEN [status |-> 403, body |-> {}]
    ELSE IF get_usuario_by_id(usuario_id) = {}
    THEN [status |-> 404, body |-> {}]
    ELSE [status |-> 200, body |-> get_usuario_by_id(usuario_id)]

\* an exception that is neither HTTPException, ValueError nor KeyError is not
\* caught by the route and is answered 500
crear_usuario(current_user, payload, salt) ==
    IF current_user.rol_id # ADMIN
    THEN [status |-> 403, usuarios |-> usuarios, seq |-> seq, body |-> {}]
    ELSE IF obtener_usuario_por_email(payload.email) # {}
    THEN [status |-> 400, usuarios |-> usuarios, seq |-> seq, body |-> {}]
    ELSE LET r == crear_usuario_con_hash(payload, get_password_hash(payload.password, salt))
         IN [status |-> CASE r.exc = "none" -> 201
                          [] r.exc = "ValueError" -> 400
                          [] r.exc = "KeyError" -> 404
                          [] OTHER -> 500,
             usuarios |-> r.usuarios, seq |-> r.seq, body |-> r.ret]

\* actualizar_usuario without its permission check
actualizar_usuario_sin_permiso(current_user, usuario_id, payload) ==
    LET r == update_usuario(usuario_id, payload)
    IN [status |-> CASE r.exc = "none" -> 200
                     [] r.exc = "KeyError" -> 404
                     [] r.exc = "ValueError" -> 400
                     [] OTHER -> 500,
        usuarios |-> r.usuarios, body |-> r.ret]

actualizar_usuario(current_user, usuario_id, payload) ==
    IF current_user.rol_id # ADMIN /\ current_user.id # usuario_id
    THEN [status |-> 403, usuarios |-> usuarios, body |-> {}]
    ELSE LET r == update_usuario(usuario_id, payload)
         IN [status |-> CASE r.exc = "none" -> 200
                          [] r.exc = "KeyError" -> 404
                          [] r.exc = "ValueError" -> 400
                          [] OTHER -> 500,
             usuarios |-> r.usuarios, body |-> r.ret]

eliminar_usuario(current_user, usuario_id) ==
    IF current_user.rol_id # ADMIN
    THEN [status |-> 403, usuarios |-> usuarios, tareas |-> tareas,
          cronograma |-> cronograma, estado_animo |-> estado_animo,
          usuario_tutorias |-> usuario_tutorias]
    ELSE LET r == delete_usuario(usuario_id)
         IN [status |-> IF r.exc = "none" THEN 200 ELSE 404,
             usuarios |-> r.usuarios, tareas |-> r.tareas,
             cronograma |-> r.cronograma, estado_animo |-> r.estado_animo,
             usuario_tutorias |-> r.usuario_tutorias]

\* ------------------------------------------------------------------------
\* Routes: /tareas
\* ------------------------------------------------------------------------
\* a caller who is not an administrator has the filter forced to the own id
listar_tareas(current_user, usuario_id, estado) ==
    LET forced == IF current_user.rol_id # ADMIN THEN current_user.id ELSE usuario_id
    IN [status |-> 200, body |-> get_tareas(forced, estado)]

\* obtener_tarea that tests the caller before it looks the task up
obtener_tarea_permiso_primero(current_user, tarea_id) ==
    LET found == get_tarea_by_id(tarea_id)
    IN IF current_user.rol_id # ADMIN
          /\ \A x \in found : x.usuario_id # current_user.id
       THEN [status |-> 403, body |-> {}]
       ELSE IF found = {}
       THEN [status |-> 404, body |-> {}]
       ELSE [status |-> 200, body |-> found]

obtener_tarea(current_user, tarea_id) ==
    LET found == get_tarea_by_id(tarea_id)
    IN IF found = {}
       THEN [status |-> 404, body |-> {}]
       ELSE IF current_user.rol_id # ADMIN
               /\ (CHOOSE x \in found : TRUE).usuario_id # current_user.id
       THEN [status |-> 403, body |-> {}]
       ELSE [status |-> 200, body |-> found]

crear_tarea(current_user, payload) ==
    IF current_user.rol_id # ADMIN /\ payload.usuario_id # current_user.id
    THEN [status |-> 403, tareas |-> tareas, seq |-> seq, body |-> {}]
    ELSE LET r == create_tarea(payload)
         IN [status |-> CASE r.exc = "none" -> 201
                          [] r.exc = "KeyError" -> 404
                          [] OTHER -> 500,
             tareas |-> r.tareas, seq |-> r.seq, body |-> r.ret]

actualizar_tarea(current_user, tarea_id, payload) ==
    LET existente == get_tarea_by_id(tarea_id)
    IN IF existente = {}
       THEN [status |-> 404, tareas |-> tareas, body |-> {}]
       ELSE IF current_user.rol_id # ADMIN
               /\ (CHOOSE x \in existente : TRUE).usuario_id # current_user.id
       THEN [status |-> 403, tareas |-> tareas, body |-> {}]
       ELSE LET r == update_tarea(tarea_id, payload)
            IN [status |-> CASE r.exc = "none" -> 200
                          [] r.exc = "KeyError" -> 404
                          [] OTHER -> 500,
                tareas |-> r.tareas, body |-> r.ret]

\* eliminar_tarea without its permission check
eliminar_tarea_sin_permiso(current_user, tarea_id) ==
    LET existente == get_tarea_by_id(tarea_id)
    IN IF existente = {}
       THEN [status |-> 404, tareas |-> tareas]
       ELSE LET r == delete_tarea(tarea_id)
            IN [status |-> IF r.exc = "none" THEN 200 ELSE 404, tareas |-> r.tareas]

eliminar_tarea(current_user, tarea_id) ==
    LET existente == get_tarea_by_id(tarea_id)
    IN IF existente = {}
       THEN [status |-> 404, tareas |-> tareas]
       ELSE IF current_user.rol_id # ADMIN
               /\ (CHOOSE x \in existente : TRUE).usuario_id # current_user.id
       THEN [status |-> 403, tareas |-> tareas]
       ELSE LET r == delete_tarea(tarea_id)
            IN [status |-> IF r.exc = "none" THEN 200 ELSE 404, tareas |-> r.tareas]

\* ------------------------------------------------------------------------
\* Routes: /cronograma
\* ------------------------------------------------------------------------
\* a caller who is not an administrator has the filter forced to the own id
listar_cronograma(current_user, usuario_id, fecha_inicio, fecha_fin) ==
    LET forced == IF current_user.rol_id # ADMIN THEN current_user.id ELSE usuario_id
    IN [status |-> 200, body |-> get_cronograma(forced, fecha_inicio, fecha_fin)]

obtener_cronograma(current_user, cronograma_id) ==
    LET found == get_cronograma_by_id(cronograma_id)
    IN IF found = {}
       THEN [status |-> 404, body |-> {}]
       ELSE IF current_user.rol_id # ADMIN
               /\ (CHOOSE x \in found : TRUE).usuario_id # current_user.id
       THEN [status |-> 403, body |-> {}]
       ELSE [status |-> 200, body |-> found]

\* crear_cronograma without its permission check
crear_cronograma_sin_permiso(current_user, payload) ==
    LET r == create_cronograma(payload)
    IN [status |-> CASE r.exc = "none" -> 201
                     [] r.exc = "KeyError" -> 404
                     [] r.exc = "ValueError" -> 400
                     [] OTHER -> 500,
        cronograma |-> r.cronograma, seq |-> r.seq, body |-> r.ret]

crear_cronograma(current_user, payload) ==
    IF current_user.rol_id # ADMIN /\ payload.usuario_id # current_user.id
    THEN [status |-> 403, cronograma |-> cronograma, seq |-> seq, body |-> {}]
    ELSE LET r == create_cronograma(payload)
         IN [status |-> CASE r.exc = "none" -> 201
                          [] r.exc = "KeyError" -> 404
                          [] r.exc = "ValueError" -> 400
                          [] OTHER -> 500,
             cronograma |-> r.cronograma, seq |-> r.seq, body |-> r.ret]

actualizar_cronograma(current_user, cronograma_id, payload) ==
    LET existente == get_cronograma_by_id(cronograma_id)
    IN IF existente = {}
       THEN [status |-> 404, cronograma |-> cronograma, body |-> {}]
       ELSE IF current_user.rol_id # ADMIN
               /\ (CHOOSE x \in existente : TRUE).usuario_id # current_user.id
       THEN [status |-> 403, cronograma |-> cronograma, body |-> {}]
       ELSE LET r == update_cronograma(cronograma_id, payload)
            IN [status |-> CASE r.exc = "none" -> 200
                          [] r.exc = "KeyError" -> 404
                          [] r.exc = "ValueError" -> 400
                          [] OTHER -> 500,
                cronograma |-> r.cronograma, body |-> r.ret]

eliminar_cronograma(current_user, cronograma_id) ==
    LET existente == get_cronograma_by_id(cronograma_id)
    IN IF existente = {}
       THEN [status |-> 404, cronograma |-> cronograma]
       ELSE IF current_user.rol_id # ADMIN
               /\ (CHOOSE x \in existente : TRUE).usuario_id # current_user.id
       THEN [status |-> 403, cronograma |-> cronograma]
       ELSE LET r == delete_cronograma(cronograma_id)
            IN [status |-> IF r.exc = "none" THEN 200 ELSE 404, cronograma |-> r.cronograma]

\* ------------------------------------------------------------------------
\* Routes: /estados-animo
\* ------------------------------------------------------------------------
\* a caller who is not an administrator has the filter forced to the own id
listar_estados_animo(current_user, usuario_id, fecha_desde, fecha_hasta) ==
    LET forced == IF current_user.rol_id # ADMIN THEN current_user.id ELSE usuario_id
    IN [status |-> 200, body |-> get_estados_animo(forced, fecha_desde, fecha_hasta)]

obtener_estado_animo(current_user, estado_id) ==
    LET found == get_estado_animo_by_id(estado_id)
    IN IF found = {}
       THEN [status |-> 404, body |-> {}]
       ELSE IF current_user.rol_id # ADMIN
               /\ (CHOOSE x \in found : TRUE).usuario_id # current_user.id
       THEN [status |-> 403, body |-> {}]
       ELSE [status |-> 200, body |-> found]

crear_estado_animo(current_user, payload) ==
    IF current_user.rol_id # ADMIN /\ payload.usuario_id # current_user.id
    THEN [status |-> 403, estado_animo |-> estado_animo, seq |-> seq, body |-> {}]
    ELSE LET r == create_estado_animo(payload)
         IN [status |-> CASE r.exc = "none" -> 201
                          [] r.exc = "KeyError" -> 404
                          [] OTHER -> 500,
             estado_animo |-> r.estado_animo, seq |-> r.seq, body |-> r.ret]

actualizar_estado_animo(current_user, estado_id, payload) ==
    LET existente == get_estado_animo_by_id(estado_id)
    IN IF existente = {}
       THEN [status |-> 404, estado_animo |-> estado_animo, body |-> {}]
       ELSE IF current_user.rol_id # ADMIN
               /\ (CHOOSE x \in existente : TRUE).usuario_id # current_user.id
       THEN [status |-> 403, estado_animo |-> estado_animo, body |-> {}]
       ELSE LET r == update_estado_animo(estado_id, payload)
            IN [status |-> CASE r.exc = "none" -> 200
                          [] r.exc = "KeyError" -> 404
                          [] OTHER -> 500,
                estado_animo |-> r.estado_animo, body |-> r.ret]

eliminar_estado_animo(current_user, estado_id) ==
    LET existente == get_estado_animo_by_id(estado_id)
    IN IF existente = {}
       THEN [status |-> 404, estado_animo |-> estado_animo]
       ELSE IF current_user.rol_id # ADMIN
               /\ (CHOOSE x \in existente : TRUE).usuario_id # current_user.id
       THEN [status |-> 403, estado_animo |-> estado_animo]
       ELSE LET r == delete_estado_animo(estado_id)
            IN [status |-> IF r.exc = "none" THEN 200 ELSE 404, estado_animo |-> r.estado_animo]

\* ------------------------------------------------------------------------
\* Routes: /tutorias
\* ------------------------------------------------------------------------
listar_tutorias(current_user) == [status |-> 200, body |-> get_tutorias]

obtener_tutoria(current_user, tutoria_id) ==
    IF get_tutoria_by_id(tutoria_id) = {}
    THEN [status |-> 404, body |-> {}]
    ELSE [status |-> 200, body |-> get_tutoria_by_id(tutoria_id)]

crear_tutoria(current_user, payload) ==
    IF current_user.rol_id \notin {ADMIN, TUTOR}
    THEN [status |-> 403, tutorias |-> tutorias, seq |-> seq, body |-> {}]
    ELSE LET r == create_tutoria(payload)
         IN [status |-> 201, tutorias |-> r.tutorias, seq |-> r.seq, body |-> r.ret]

actualizar_tutoria(current_user, tutoria_id, payload) ==
    IF current_user.rol_id \notin {ADMIN, TUTOR}
    THEN [status |-> 403, tutorias |-> tutorias, body |-> {}]
    ELSE LET r == update_tutoria(tutoria_id, payload)
         IN [status |-> IF r.exc = "none" THEN 200 ELSE 404,
             tutorias |-> r.tutorias, body |-> r.ret]

\* eliminar_tutoria with the permission check of crear_tutoria
eliminar_tutoria_con_tutor(current_user, tutoria_id) ==
    IF current_user.rol_id \notin {ADMIN, TUTOR}
    THEN [status |-> 403, tutorias |-> tutorias, usuario_tutorias |-> usuario_tutorias]
    ELSE LET r == delete_tutoria(tutoria_id)
         IN [status |-> IF r.exc = "none" THEN 200 ELSE 404,
             tutorias |-> r.tutorias, usuario_tutorias |-> r.usuario_tutorias]

eliminar_tutoria(current_user, tutoria_id) ==
    IF current_user.rol_id # ADMIN
    THEN [status |-> 403, tutorias |-> tutorias, usuario_tutorias |-> usuario_tutorias]
    ELSE LET r == delete_tutoria(tutoria_id)
         IN [status |-> IF r.exc = "none" THEN 200 ELSE 404,
             tutorias |-> r.tutorias, usuario_tutorias |-> r.usuario_tutorias]

\* POST /tutorias/participantes
agregar_usuario_tutoria(current_user, payload) ==
    IF current_user.rol_id # ADMIN /\ payload.usuario_id # current_user.id
    THEN [status |-> 403, usuario_tutorias |-> usuario_tutorias]
    ELSE LET r == add_usuario_tutoria(payload)
         IN [status |-> CASE r.exc = "none" -> 200
                          [] r.exc = "KeyError" -> 404
                          [] r.exc = "ValueError" -> 400
                          [] OTHER -> 500,
             usuario_tutorias |-> r.usuario_tutorias]

\* remover_usuario_tutoria without its permission check
remover_usuario_tutoria_sin_permiso(current_user, tutoria_id, usuario_id, rol_en_tutoria) ==
    LET r == remove_usuario_tutoria(usuario_id, tutoria_id, rol_en_tutoria)
    IN [status |-> IF r.exc = "none" THEN 200 ELSE 404,
        usuario_tutorias |-> r.usuario_tutorias]

\* DELETE /tutorias/{tutoria_id}/participantes/{usuario_id}
remover_usuario_tutoria(current_user, tutoria_id, usuario_id, rol_en_tutoria) ==
    IF current_user.rol_id # ADMIN /\ usuario_id # current_user.id
    THEN [status |-> 403, usuario_tutorias |-> usuario_tutorias]
    ELSE LET r == remove_usuario_tutoria(usuario_id, tutoria_id, rol_en_tutoria)
         IN [status |-> IF r.exc = "none" THEN 200 ELSE 404,
             usuario_tutorias |-> r.usuario_tutorias]

\* ------------------------------------------------------------------------
\* Requests
\* ------------------------------------------------------------------------
\* Routes: /estadisticas (no current_user dependency)
\* ------------------------------------------------------------------------
estadisticas_usuario(usuario_id) ==
    LET usuario == get_usuario_by_id(usuario_id)
    IN IF usuario = {}
       THEN [status |-> 404, body |-> {}]
       ELSE LET tareas_u == get_tareas(usuario_id, NoneStr)
            IN [status |-> 200,
                body |-> {[usuario |-> usuario,
                           total_tareas |-> Cardinality(tareas_u),
                           tareas_por_estado |->
                               [estado \in EstadoTarea |->
                                   Cardinality({t \in tareas_u : t.estado = estado})],
                           eventos_cronograma |->
                               Cardinality(get_cronograma(usuario_id, NoneInt, NoneInt)),
                           registros_estado_animo |->
                               Cardinality(get_estados_animo(usuario_id, NoneInt, NoneInt))]}]

estadisticas_generales ==
    [status |-> 200,
     body |-> {[total_usuarios |-> Cardinality(get_usuarios),
                total_tareas |-> Cardinality(get_tareas(NoneInt, NoneStr)),
                total_eventos_cronograma |-> Cardinality(get_cronograma(NoneInt, NoneInt, NoneInt)),
                total_tutorias |-> Cardinality(get_tutorias),
                total_registros_estado_animo |->
                    Cardinality(get_estados_animo(NoneInt, NoneInt, NoneInt))]}]

\* ------------------------------------------------------------------------
\* the single user a token resolves to
TheUser(token) == CHOOSE u \in get_current_active_user(token) : TRUE

\* ids a client can name for a table whose sequence stands at n: the ids handed
\* out, one that was never handed out, and 0
IdsUpTo(n) == 0 .. n

\* ids a client can name in a path: the ids handed out and one never handed out
PathIds(n) == 1 .. n

UsuarioCreate(nombres, emails, passwords, rol_ids) ==
    [nombre : nombres, email : emails, password : passwords, rol_id : rol_ids]

UsuarioUpdate(nombres, emails, rol_ids) ==
    [nombre : nombres, email : emails, rol_id : rol_ids]

RegistrarUsuario(payloads) ==
    \E payload \in payloads, salt \in Salts :
        /\ LET o == registrar_usuario(payload, salt)
           IN /\ o.seq.usuarios <= MaxUsuarios + 1
              /\ usuarios' = o.usuarios
              /\ seq' = o.seq
              /\ resp' = Response("registrar_usuario", o.status, 0, payload.rol_id, o.body)
        /\ UNCHANGED <<roles, tareas, cronograma, estado_animo, tutorias, usuario_tutorias, tokens, emitidos, en_curso>>

Login ==
    \E email \in Emails, password \in Passwords \cup {"wrong"} :
        LET o == login(email, password)
        IN /\ tokens' = o.tokens
           /\ resp' = Response("login", o.status, 0, NoneInt, o.body)
           /\ UNCHANGED <<tables, emitidos, en_curso>>

LoginForm ==
    \E username \in Emails, password \in Passwords \cup {"wrong"} :
        LET o == login_form(username, password)
        IN /\ tokens' = o.tokens
           /\ resp' = Response("login_form", o.status, 0, NoneInt, o.body)
           /\ UNCHANGED <<tables, emitidos, en_curso>>

ListarUsuarios ==
    \E token \in Bearers :
        IF get_current_active_user(token) = {}
        THEN Unauthorized("listar_usuarios")
        ELSE LET o == listar_usuarios(TheUser(token))
             IN /\ resp' = Response("listar_usuarios", o.status, TheUser(token).id, NoneInt, o.body)
                /\ UNCHANGED <<tables, tokens, emitidos, en_curso>>

ObtenerUsuario ==
    \E token \in Bearers, usuario_id \in PathIds(seq.usuarios) :
        IF get_current_active_user(token) = {}
        THEN Unauthorized("obtener_usuario")
        ELSE LET o == obtener_usuario(TheUser(token), usuario_id)
             IN /\ resp' = Response("obtener_usuario", o.status, TheUser(token).id, usuario_id, o.body)
                /\ UNCHANGED <<tables, tokens, emitidos, en_curso>>

CrearUsuario(payloads) ==
    \E token \in Bearers, payload \in payloads, salt \in Salts :
        IF get_current_active_user(token) = {}
        THEN Unauthorized("crear_usuario")
        ELSE LET o == crear_usuario(TheUser(token), payload, salt)
             IN /\ o.seq.usuarios <= MaxUsuarios + 1
                /\ usuarios' = o.usuarios
                /\ seq' = o.seq
                /\ resp' = Response("crear_usuario", o.status, TheUser(token).id, payload.rol_id, o.body)
                /\ UNCHANGED <<roles, tareas, cronograma, estado_animo, tutorias, usuario_tutorias, tokens, emitidos, en_curso>>

ActualizarUsuario(payloads) ==
    \E token \in Bearers, usuario_id \in PathIds(seq.usuarios), payload \in payloads :
        IF get_current_active_user(token) = {}
        THEN Unauthorized("actualizar_usuario")
        ELSE LET o == actualizar_usuario(TheUser(token), usuario_id, payload)
             IN /\ usuarios' = o.usuarios
                /\ resp' = Response("actualizar_usuario", o.status, TheUser(token).id, usuario_id, o.body)
                /\ UNCHANGED <<roles, tareas, cronograma, estado_animo, tutorias, usuario_tutorias, seq, tokens, emitidos, en_curso>>

EliminarUsuario ==
    \E token \in Bearers, usuario_id \in PathIds(seq.usuarios) :
        IF get_current_active_user(token) = {}
        THEN Unauthorized("eliminar_usuario")
        ELSE LET o == eliminar_usuario(TheUser(token), usuario_id)
             IN /\ usuarios' = o.usuarios
                /\ tareas' = o.tareas
                /\ cronograma' = o.cronograma
                /\ estado_animo' = o.estado_animo
                /\ usuario_tutorias' = o.usuario_tutorias
                /\ resp' = Response("eliminar_usuario", o.status, TheUser(token).id, usuario_id, {})
                /\ UNCHANGED <<roles, tutorias, seq, tokens, emitidos, en_curso>>

\* payloads of the user routes
UsuarioCreates == UsuarioCreate({"n1"}, Emails, Passwords, {NoneInt, 0, 1, 2, 4})
UsuarioUpdates ==
    UsuarioUpdate({NoneStr, "n2"}, {NoneStr}, {NoneInt})
      \cup UsuarioUpdate({NoneStr}, Emails, {NoneInt})
      \cup UsuarioUpdate({NoneStr}, {NoneStr}, {0, 1, 2, 4})

\* the statistics routes take no token: the caller is nobody
EstadisticasUsuario ==
    \E usuario_id \in PathIds(seq.usuarios) :
        LET o == estadisticas_usuario(usuario_id)
        IN /\ resp' = Response("estadisticas_usuario", o.status, 0, usuario_id, o.body)
           /\ UNCHANGED <<tables, tokens, emitidos, en_curso>>

EstadisticasGenerales ==
    LET o == estadisticas_generales
    IN /\ resp' = Response("estadisticas_generales", o.status, 0, NoneInt, o.body)
       /\ UNCHANGED <<tables, tokens, emitidos, en_curso>>

\* fix_passwords.py: every password that does not start with $2b$ is read as
\* text and replaced by its hash; pwd_context writes $pbkdf2-sha256$ hashes
update_plain_passwords(salt) ==
    LET users_to_update == {u \in usuarios : u.password[1] # "2b"}
        plain_password(u) == "$" \o u.password[1] \o "$" \o u.password[2] \o "$" \o u.password[3]
    IN (usuarios \ users_to_update)
         \cup {[u EXCEPT !.password = get_password_hash(plain_password(u), salt)] :
                  u \in users_to_update}

\* one run of the script
UpdatePlainPasswords ==
    \E salt \in Salts :
        /\ \A u \in usuarios : u.password[3] \in Passwords
        /\ usuarios' = update_plain_passwords(salt)
        /\ resp' = Response("update_plain_passwords", 0, 0, NoneInt, {})
        /\ UNCHANGED <<roles, tareas, cronograma, estado_animo, tutorias, usuario_tutorias, seq, tokens, emitidos, en_curso>>

\* init_db that inserts the default roles without counting the stored ones
init_db_sin_comprobar ==
    roles \cup {[id |-> Cardinality(roles) + r.id, nombre |-> r.nombre] : r \in roles_default}

\* init_db: the default roles are inserted when the roles table has no row
init_db == IF Cardinality(roles) = 0 THEN roles_default ELSE roles

\* startup_event
InitDb ==
    /\ roles' = init_db
    /\ resp' = Response("init_db", 0, 0, NoneInt, {})
    /\ UNCHANGED <<usuarios, tareas, cronograma, estado_animo, tutorias, usuario_tutorias, seq, tokens, emitidos, en_curso>>

\* POST /auth/register up to the insert: the email and role tests of the route
\* and of crear_usuario_con_hash have been made on the rows committed so far
RegistrarUsuarioComprueba(payloads) ==
    \E payload \in payloads, salt \in Salts :
        LET o == registrar_usuario(payload, salt)
        IN IF o.status = 201
           THEN /\ Cardinality(en_curso) < MaxEnCurso
                /\ en_curso' = en_curso \cup {[op |-> "registrar_usuario", caller |-> 0,
                                                payload |-> payload, salt |-> salt]}
                /\ UNCHANGED <<tables, tokens, emitidos, resp>>
           ELSE /\ resp' = Response("registrar_usuario", o.status, 0, payload.rol_id, o.body)
                /\ UNCHANGED <<tables, tokens, emitidos, en_curso>>

\* POST /usuarios up to the insert
CrearUsuarioComprueba(payloads) ==
    \E token \in Bearers, payload \in payloads, salt \in Salts :
        IF get_current_active_user(token) = {}
        THEN Unauthorized("crear_usuario")
        ELSE LET o == crear_usuario(TheUser(token), payload, salt)
             IN IF o.status = 201
                THEN /\ Cardinality(en_curso) < MaxEnCurso
                     /\ en_curso' = en_curso \cup {[op |-> "crear_usuario",
                                                     caller |-> TheUser(token).id,
                                                     payload |-> payload, salt |-> salt]}
                     /\ UNCHANGED <<tables, tokens, emitidos, resp>>
                ELSE /\ resp' = Response("crear_usuario", o.status, TheUser(token).id,
                                          payload.rol_id, o.body)
                     /\ UNCHANGED <<tables, tokens, emitidos, en_curso>>

\* db.add and db.commit of crear_usuario_con_hash: the unique constraint on
\* usuarios.email refuses the row when the email has been committed meanwhile
\* (IntegrityError); registrar_usuario answers every exception with 400,
\* crear_usuario catches ValueError and KeyError only
InsertarUsuario ==
    \E req \in en_curso :
        LET db_usuario == [id |-> seq.usuarios, nombre |-> req.payload.nombre,
                           email |-> req.payload.email,
                           password |-> get_password_hash(req.payload.password, req.salt),
                           rol_id |-> req.payload.rol_id]
            IntegrityError == get_usuario_by_email(req.payload.email) # {}
        IN /\ seq.usuarios <= MaxUsuarios + 1
           /\ en_curso' = en_curso \ {req}
           /\ seq' = [seq EXCEPT !.usuarios = @ + 1]
           /\ usuarios' = IF IntegrityError THEN usuarios ELSE usuarios \cup {db_usuario}
           /\ resp' = Response(req.op,
                               IF ~IntegrityError THEN 201
                               ELSE IF req.op = "registrar_usuario" THEN 400 ELSE 500,
                               req.caller, req.payload.rol_id,
                               IF IntegrityError THEN {} ELSE {db_usuario_to_pydantic(db_usuario)})
           /\ UNCHANGED <<roles, tareas, cronograma, estado_animo, tutorias, usuario_tutorias, tokens, emitidos>>

\* a login whose issuance is logged
LoginEmitido ==
    \E email \in Emails, password \in Passwords \cup {"wrong"} :
        LET o == login(email, password)
        IN /\ tokens' = o.tokens
           /\ emitidos' = emitidos \cup {[sub |-> b.email, id |-> b.id] : b \in o.body}
           /\ resp' = Response("login", o.status, 0, NoneInt, o.body)
           /\ UNCHANGED <<tables, en_curso>>

\* the authentication and user routes
Next ==
    \/ RegistrarUsuario(UsuarioCreates)
    \/ Login
    \/ LoginForm
    \/ ListarUsuarios
    \/ ObtenerUsuario
    \/ CrearUsuario(UsuarioCreates)
    \/ ActualizarUsuario(UsuarioUpdates)
    \/ EliminarUsuario

Spec == Init /\ [][Next]_vars

\* ids handed out so far by the sequences of tareas, cronograma and estado_animo
RegistrosCreados(s) == (s.tareas - 1) + (s.cronograma - 1) + (s.estado_animo - 1)

ListarTareas(filtros) ==
    \E token \in Bearers, usuario_id \in {NoneInt} \cup IdsUpTo(seq.usuarios), f \in filtros :
        IF get_current_active_user(token) = {}
        THEN Unauthorized("listar_tareas")
        ELSE LET o == listar_tareas(TheUser(token), usuario_id, f)
             IN /\ resp' = Response("listar_tareas", o.status, TheUser(token).id, usuario_id, o.body)
                /\ UNCHANGED <<tables, tokens, emitidos, en_curso>>

ObtenerTareas ==
    \E token \in Bearers, tarea_id \in PathIds(seq.tareas) :
        IF get_current_active_user(token) = {}
        THEN Unauthorized("obtener_tarea")
        ELSE LET o == obtener_tarea(TheUser(token), tarea_id)
             IN /\ resp' = Response("obtener_tarea", o.status, TheUser(token).id, tarea_id, o.body)
                /\ UNCHANGED <<tables, tokens, emitidos, en_curso>>

CrearTareas(payloads, limite) ==
    \E token \in Bearers, payload \in payloads :
        IF get_current_active_user(token) = {}
        THEN Unauthorized("crear_tarea")
        ELSE LET o == crear_tarea(TheUser(token), payload)
             IN /\ RegistrosCreados(o.seq) <= limite
                /\ tareas' = o.tareas
                /\ seq' = o.seq
                /\ resp' = Response("crear_tarea", o.status, TheUser(token).id, payload.usuario_id, o.body)
                /\ UNCHANGED <<roles, usuarios, cronograma, estado_animo, tutorias, usuario_tutorias, tokens, emitidos, en_curso>>

ActualizarTareas(payloads) ==
    \E token \in Bearers, tarea_id \in PathIds(seq.tareas), payload \in payloads :
        IF get_current_active_user(token) = {}
        THEN Unauthorized("actualizar_tarea")
        ELSE LET o == actualizar_tarea(TheUser(token), tarea_id, payload)
             IN /\ tareas' = o.tareas
                /\ resp' = Response("actualizar_tarea", o.status, TheUser(token).id, tarea_id, o.body)
                /\ UNCHANGED <<roles, usuarios, cronograma, estado_animo, tutorias, usuario_tutorias, seq, tokens, emitidos, en_curso>>

EliminarTareas ==
    \E token \in Bearers, tarea_id \in PathIds(seq.tareas) :
        IF get_current_active_user(token) = {}
        THEN Unauthorized("eliminar_tarea")
        ELSE LET o == eliminar_tarea(TheUser(token), tarea_id)
             IN /\ tareas' = o.tareas
                /\ resp' = Response("eliminar_tarea", o.status, TheUser(token).id, tarea_id, {})
                /\ UNCHANGED <<roles, usuarios, cronograma, estado_animo, tutorias, usuario_tutorias, seq, tokens, emitidos, en_curso>>

ListarCronograma(filtros) ==
    \E token \in Bearers, usuario_id \in {NoneInt} \cup IdsUpTo(seq.usuarios), f \in filtros :
        IF get_current_active_user(token) = {}
        THEN Unauthorized("listar_cronograma")
        ELSE LET o == listar_cronograma(TheUser(token), usuario_id, f[1], f[2])
             IN /\ resp' = Response("listar_cronograma", o.status, TheUser(token).id, usuario_id, o.body)
                /\ UNCHANGED <<tables, tokens, emitidos, en_curso>>

ObtenerCronograma ==
    \E token \in Bearers, cronograma_id \in PathIds(seq.cronograma) :
        IF get_current_active_user(token) = {}
        THEN Unauthorized("obtener_cronograma")
        ELSE LET o == obtener_cronograma(TheUser(token), cronograma_id)
             IN /\ resp' = Response("obtener_cronograma", o.status, TheUser(token).id, cronograma_id, o.body)
                /\ UNCHANGED <<tables, tokens, emitidos, en_curso>>

CrearCronograma(payloads, limite) ==
    \E token \in Bearers, payload \in payloads :
        IF get_current_active_user(token) = {}
        THEN Unauthorized("crear_cronograma")
        ELSE LET o == crear_cronograma(TheUser(token), payload)
             IN /\ RegistrosCreados(o.seq) <= limite
                /\ cronograma' = o.cronograma
                /\ seq' = o.seq
                /\ resp' = Response("crear_cronograma", o.status, TheUser(token).id, payload.usuario_id, o.body)
                /\ UNCHANGED <<roles, usuarios, tareas, estado_animo, tutorias, usuario_tutorias, tokens, emitidos, en_curso>>

ActualizarCronograma(payloads) ==
    \E token \in Bearers, cronograma_id \in PathIds(seq.cronograma), payload \in payloads :
        IF get_current_active_user(token) = {}
        THEN Unauthorized("actualizar_cronograma")
        ELSE LET o == actualizar_cronograma(TheUser(token), cronograma_id, payload)
             IN /\ cronograma' = o.cronograma
                /\ resp' = Response("actualizar_cronograma", o.status, TheUser(token).id, cronograma_id, o.body)
                /\ UNCHANGED <<roles, usuarios, tareas, estado_animo, tutorias, usuario_tutorias, seq, tokens, emitidos, en_curso>>

EliminarCronograma ==
    \E token \in Bearers, cronograma_id \in PathIds(seq.cronograma) :
        IF get_current_active_user(token) = {}
        THEN Unauthorized("eliminar_cronograma")
        ELSE LET o == eliminar_cronograma(TheUser(token), cronograma_id)
             IN /\ cronograma' = o.cronograma
                /\ resp' = Response("eliminar_cronograma", o.status, TheUser(token).id, cronograma_id, {})
                /\ UNCHANGED <<roles, usuarios, tareas, estado_animo, tutorias, usuario_tutorias, seq, tokens, emitidos, en_curso>>

ListarEstadosAnimo(filtros) ==
    \E token \in Bearers, usuario_id \in {NoneInt} \cup IdsUpTo(seq.usuarios), f \in filtros :
        IF get_current_active_user(token) = {}
        THEN Unauthorized("listar_estados_animo")
        ELSE LET o == listar_estados_animo(TheUser(token), usuario_id, f[1], f[2])
             IN /\ resp' = Response("listar_estados_animo", o.status, TheUser(token).id, usuario_id, o.body)
                /\ UNCHANGED <<tables, tokens, emitidos, en_curso>>

ObtenerEstadosAnimo ==
    \E token \in Bearers, estado_id \in PathIds(seq.estado_animo) :
        IF get_current_active_user(token) = {}
        THEN Unauthorized("obtener_estado_animo")
        ELSE LET o == obtener_estado_animo(TheUser(token), estado_id)
             IN /\ resp' = Response("obtener_estado_animo", o.status, TheUser(token).id, estado_id, o.body)
                /\ UNCHANGED <<tables, tokens, emitidos, en_curso>>

CrearEstadosAnimo(payloads, limite) ==
    \E token \in Bearers, payload \in payloads :
        IF get_current_active_user(token) = {}
        THEN Unauthorized("crear_estado_animo")
        ELSE LET o == crear_estado_animo(TheUser(token), payload)
             IN /\ RegistrosCreados(o.seq) <= limite
                /\ estado_animo' = o.estado_animo
                /\ seq' = o.seq
                /\ resp' = Response("crear_estado_animo", o.status, TheUser(token).id, payload.usuario_id, o.body)
                /\ UNCHANGED <<roles, usuarios, tareas, cronograma, tutorias, usuario_tutorias, tokens, emitidos, en_curso>>

ActualizarEstadosAnimo(payloads) ==
    \E token \in Bearers, estado_id \in PathIds(seq.estado_animo), payload \in payloads :
        IF get_current_active_user(token) = {}
        THEN Unauthorized("actualizar_estado_animo")
        ELSE LET o == actualizar_estado_animo(TheUser(token), estado_id, payload)
             IN /\ estado_animo' = o.estado_animo
                /\ resp' = Response("actualizar_estado_animo", o.status, TheUser(token).id, estado_id, o.body)
                /\ UNCHANGED <<roles, usuarios, tareas, cronograma, tutorias, usuario_tutorias, seq, tokens, emitidos, en_curso>>

EliminarEstadosAnimo ==
    \E token \in Bearers, estado_id \in PathIds(seq.estado_animo) :
        IF get_current_active_user(token) = {}
        THEN Unauthorized("eliminar_estado_animo")
        ELSE LET o == eliminar_estado_animo(TheUser(token), estado_id)
             IN /\ estado_animo' = o.estado_animo
                /\ resp' = Response("eliminar_estado_animo", o.status, TheUser(token).id, estado_id, {})
                /\ UNCHANGED <<roles, usuarios, tareas, cronograma, tutorias, usuario_tutorias, seq, tokens, emitidos, en_curso>>

\* payloads of the routes of tareas, cronograma and estado_animo
UsuarioCreatesAdminEstudiante == UsuarioCreate({"n1"}, Emails, Passwords, {1, 2})

TareaCreate(usuario_ids) ==
    [titulo : {"t1"}, descripcion : {NoneStr}, fecha_entrega : {NoneInt},
     estado : {"pendiente"}, usuario_id : usuario_ids]
TareaUpdates ==
    [titulo : {NoneStr}, descripcion : {NoneStr}, fecha_entrega : {NoneInt},
     estado : {NoneStr, "completada"}]

CronogramaCreate(usuario_ids) ==
    [titulo : {"t1"}, descripcion : {NoneStr}, fecha_inicio : {1}, fecha_fin : {2},
     usuario_id : usuario_ids]
        \cup [titulo : {"t1"}, descripcion : {NoneStr}, fecha_inicio : {2}, fecha_fin : {2},
              usuario_id : usuario_ids]
CronogramaUpdates ==
    [titulo : {NoneStr}, descripcion : {NoneStr}, fecha_inicio : {NoneInt},
     fecha_fin : {1, 3}]

EstadoAnimoCreate(usuario_ids) ==
    [estado : {"feliz"}, comentario : {NoneStr}, fecha : {NoneInt}, usuario_id : usuario_ids]
EstadoAnimoUpdates ==
    [estado : {NoneStr}, comentario : {NoneStr, "c1"}]

\* the routes of the three owned resources, with registration and login
NextRegistros ==
    \/ RegistrarUsuario(UsuarioCreatesAdminEstudiante)
    \/ Login
    \/ ListarTareas({NoneStr})
    \/ ObtenerTareas
    \/ CrearTareas(TareaCreate(PathIds(seq.usuarios)), MaxRegistros)
    \/ ActualizarTareas(TareaUpdates)
    \/ EliminarTareas
    \/ ListarCronograma({<<NoneInt, NoneInt>>})
    \/ ObtenerCronograma
    \/ CrearCronograma(CronogramaCreate(PathIds(seq.usuarios)), MaxRegistros)
    \/ ActualizarCronograma(CronogramaUpdates)
    \/ EliminarCronograma
    \/ ListarEstadosAnimo({<<NoneInt, NoneInt>>})
    \/ ObtenerEstadosAnimo
    \/ CrearEstadosAnimo(EstadoAnimoCreate(PathIds(seq.usuarios)), MaxRegistros)
    \/ ActualizarEstadosAnimo(EstadoAnimoUpdates)
    \/ EliminarEstadosAnimo

SpecRegistros == Init /\ [][NextRegistros]_vars

ListarTutorias ==
    \E token \in Bearers :
        IF get_current_active_user(token) = {}
        THEN Unauthorized("listar_tutorias")
        ELSE LET o == listar_tutorias(TheUser(token))
             IN /\ resp' = Response("listar_tutorias", o.status, TheUser(token).id, NoneInt, o.body)
                /\ UNCHANGED <<tables, tokens, emitidos, en_curso>>

ObtenerTutoria ==
    \E token \in Bearers, tutoria_id \in PathIds(seq.tutorias) :
        IF get_current_active_user(token) = {}
        THEN Unauthorized("obtener_tutoria")
        ELSE LET o == obtener_tutoria(TheUser(token), tutoria_id)
             IN /\ resp' = Response("obtener_tutoria", o.status, TheUser(token).id, tutoria_id, o.body)
                /\ UNCHANGED <<tables, tokens, emitidos, en_curso>>

CrearTutoria(payloads, limite) ==
    \E token \in Bearers, payload \in payloads :
        IF get_current_active_user(token) = {}
        THEN Unauthorized("crear_tutoria")
        ELSE LET o == crear_tutoria(TheUser(token), payload)
             IN /\ o.seq.tutorias <= limite + 1
                /\ tutorias' = o.tutorias
                /\ seq' = o.seq
                /\ resp' = Response("crear_tutoria", o.status, TheUser(token).id, NoneInt, o.body)
                /\ UNCHANGED <<roles, usuarios, tareas, cronograma, estado_animo, usuario_tutorias, tokens, emitidos, en_curso>>

ActualizarTutoria(payloads) ==
    \E token \in Bearers, tutoria_id \in PathIds(seq.tutorias), payload \in payloads :
        IF get_current_active_user(token) = {}
        THEN Unauthorized("actualizar_tutoria")
        ELSE LET o == actualizar_tutoria(TheUser(token), tutoria_id, payload)
             IN /\ tutorias' = o.tutorias
                /\ resp' = Response("actualizar_tutoria", o.status, TheUser(token).id, tutoria_id, o.body)
                /\ UNCHANGED <<roles, usuarios, tareas, cronograma, estado_animo, usuario_tutorias, seq, tokens, emitidos, en_curso>>

EliminarTutoria ==
    \E token \in Bearers, tutoria_id \in PathIds(seq.tutorias) :
        IF get_current_active_user(token) = {}
        THEN Unauthorized("eliminar_tutoria")
        ELSE LET o == eliminar_tutoria(TheUser(token), tutoria_id)
             IN /\ tutorias' = o.tutorias
                /\ usuario_tutorias' = o.usuario_tutorias
                /\ resp' = Response("eliminar_tutoria", o.status, TheUser(token).id, tutoria_id, {})
                /\ UNCHANGED <<roles, usuarios, tareas, cronograma, estado_animo, seq, tokens, emitidos, en_curso>>

UsuarioTutoriaCreate(usuario_ids, tutoria_ids) ==
    [usuario_id : usuario_ids, tutoria_id : tutoria_ids, rol_en_tutoria : RolTutoria]

AgregarUsuarioTutoria(payloads, limite) ==
    \E token \in Bearers, payload \in payloads :
        IF get_current_active_user(token) = {}
        THEN Unauthorized("agregar_usuario_tutoria")
        ELSE LET o == agregar_usuario_tutoria(TheUser(token), payload)
             IN /\ Cardinality(o.usuario_tutorias) <= limite
                /\ usuario_tutorias' = o.usuario_tutorias
                /\ resp' = Response("agregar_usuario_tutoria", o.status, TheUser(token).id,
                                    payload.usuario_id, {})
                /\ UNCHANGED <<roles, usuarios, tareas, cronograma, estado_animo, tutorias, seq, tokens, emitidos, en_curso>>

RemoverUsuarioTutoria ==
    \E token \in Bearers,
       payload \in UsuarioTutoriaCreate(PathIds(seq.usuarios), PathIds(seq.tutorias)) :
        IF get_current_active_user(token) = {}
        THEN Unauthorized("remover_usuario_tutoria")
        ELSE LET o == remover_usuario_tutoria(TheUser(token), payload.tutoria_id,
                                              payload.usuario_id, payload.rol_en_tutoria)
             IN /\ usuario_tutorias' = o.usuario_tutorias
                /\ resp' = Response("remover_usuario_tutoria", o.status, TheUser(token).id,
                                    payload.usuario_id, {})
                /\ UNCHANGED <<roles, usuarios, tareas, cronograma, estado_animo, tutorias, seq, tokens, emitidos, en_curso>>

\* payloads of the routes of tutorias
UsuarioCreatesTresRoles == UsuarioCreate({"n1"}, Emails, Passwords, {1, 2, 3})
TutoriaCreates == [tema : {"m1"}, descripcion : {NoneStr}, fecha : {1}]
TutoriaUpdates == [tema : {"m2"}, descripcion : {NoneStr}, fecha : {NoneInt}]

\* the routes of tutorias and their participants, with registration and login
NextTutorias ==
    \/ RegistrarUsuario(UsuarioCreatesTresRoles)
    \/ Login
    \/ ListarTutorias
    \/ ObtenerTutoria
    \/ CrearTutoria(TutoriaCreates, MaxTutorias)
    \/ ActualizarTutoria(TutoriaUpdates)
    \/ EliminarTutoria
    \/ AgregarUsuarioTutoria(UsuarioTutoriaCreate(PathIds(seq.usuarios), PathIds(seq.tutorias)),
                             MaxParticipaciones)
    \/ RemoverUsuarioTutoria

SpecTutorias == Init /\ [][NextTutorias]_vars

\* payloads of the specifications of the cascades: an administrator and a
\* student, rows and participations of stored users
UsuarioCreatesCascada ==
    UsuarioCreate({"n1"}, {"e1"}, Passwords, {1}) \cup UsuarioCreate({"n1"}, {"e2"}, Passwords, {2})
UsuarioIds == {u.id : u \in usuarios}
TutoriaIds == {t.id : t \in tutorias}
CronogramaCreateValido(usuario_ids) ==
    {p \in CronogramaCreate(usuario_ids) : p.fecha_inicio < p.fecha_fin}
UsuarioTutoriaCreateEstudiante(usuario_ids, tutoria_ids) ==
    {p \in UsuarioTutoriaCreate(usuario_ids, tutoria_ids) : p.rol_en_tutoria = "estudiante"}

\* the rows a user may still be given: at most MaxRegistros + 1 tasks, schedule
\* events, mood entries and participations in all
CupoCascada == MaxRegistros + 1 - Cardinality(usuario_tutorias)
CupoParticipaciones == MaxRegistros + 1 - RegistrosCreados(seq)

\* the routes that give a user rows and participations, and the route that
\* deletes a user
NextCascadaUsuario ==
    \/ RegistrarUsuario(UsuarioCreatesCascada)
    \/ Login
    \/ CrearTareas(TareaCreate(UsuarioIds), CupoCascada)
    \/ CrearCronograma(CronogramaCreateValido(UsuarioIds), CupoCascada)
    \/ CrearEstadosAnimo(EstadoAnimoCreate(UsuarioIds), CupoCascada)
    \/ CrearTutoria(TutoriaCreates, MaxTutorias)
    \/ AgregarUsuarioTutoria(UsuarioTutoriaCreateEstudiante(UsuarioIds, TutoriaIds),
                             CupoParticipaciones)
    \/ EliminarUsuario

SpecCascadaUsuario == Init /\ [][NextCascadaUsuario]_vars

\* the routes that give a session participants, and the route that deletes a
\* session
NextCascadaTutoria ==
    \/ RegistrarUsuario(UsuarioCreatesCascada)
    \/ Login
    \/ CrearTutoria(TutoriaCreates, MaxTutorias + 1)
    \/ AgregarUsuarioTutoria(UsuarioTutoriaCreateEstudiante(UsuarioIds, TutoriaIds),
                             MaxParticipaciones + 1)
    \/ EliminarTutoria

SpecCascadaTutoria == Init /\ [][NextCascadaTutoria]_vars

\* the routes that create a row of each kind and the five routes that update
\* one: at most MaxRegistros tasks, schedule events, mood entries and tutoring
\* sessions in all
NextActualizar ==
    \/ RegistrarUsuario(UsuarioCreatesCascada)
    \/ Login
    \/ CrearTareas(TareaCreate(UsuarioIds), MaxRegistros - (seq.tutorias - 1))
    \/ CrearCronograma(CronogramaCreateValido(UsuarioIds), MaxRegistros - (seq.tutorias - 1))
    \/ CrearEstadosAnimo(EstadoAnimoCreate(UsuarioIds), MaxRegistros - (seq.tutorias - 1))
    \/ CrearTutoria(TutoriaCreates, MaxRegistros - RegistrosCreados(seq))
    \/ ActualizarUsuario(UsuarioUpdate({"n2"}, {NoneStr}, {NoneInt}))
    \/ ActualizarTareas(TareaUpdates)
    \/ ActualizarCronograma(CronogramaUpdates)
    \/ ActualizarEstadosAnimo(EstadoAnimoUpdates)
    \/ ActualizarTutoria(TutoriaUpdates)

SpecActualizar == Init /\ [][NextActualizar]_vars

\* login, use of the token, and the requests that create, rename and delete users
NextToken ==
    \/ RegistrarUsuario(UsuarioCreates)
    \/ LoginEmitido
    \/ ObtenerUsuario
    \/ CrearUsuario(UsuarioCreates)
    \/ ActualizarUsuario(UsuarioUpdates)
    \/ EliminarUsuario

SpecToken == Init /\ [][NextToken]_vars

\* the statistics routes next to the routes that create the records they count
NextEstadisticas ==
    \/ RegistrarUsuario(UsuarioCreatesAdminEstudiante)
    \/ Login
    \/ CrearTareas(TareaCreate(UsuarioIds), MaxRegistros)
    \/ CrearCronograma(CronogramaCreateValido(UsuarioIds), MaxRegistros)
    \/ CrearEstadosAnimo(EstadoAnimoCreate(UsuarioIds), MaxRegistros)
    \/ ListarTareas({NoneStr})
    \/ EstadisticasUsuario
    \/ EstadisticasGenerales

SpecEstadisticas == Init /\ [][NextEstadisticas]_vars

\* registration and login, with the password script run in between
NextFixPasswords ==
    \/ RegistrarUsuario(UsuarioCreates)
    \/ Login
    \/ LoginForm
    \/ ObtenerUsuario
    \/ UpdatePlainPasswords

SpecFixPasswords == Init /\ [][NextFixPasswords]_vars

\* the database the application is started on: init_db is the only writer of
\* the roles table and commits its three rows at once, so the table is empty
\* (first start) or holds the default roles; the other tables are empty
InitStore ==
    /\ roles \in {{}, roles_default}
    /\ usuarios = {}
    /\ tareas = {}
    /\ cronograma = {}
    /\ estado_animo = {}
    /\ tutorias = {}
    /\ usuario_tutorias = {}
    /\ seq = [usuarios |-> 1, tareas |-> 1, cronograma |-> 1, estado_animo |-> 1, tutorias |-> 1]
    /\ tokens = {}
    /\ emitidos = {}
    /\ en_curso = {}
    /\ resp = Response("none", 0, 0, NoneInt, {})

\* startup, repeated at every restart, and registration against the roles
NextInitDb ==
    \/ InitDb
    \/ RegistrarUsuario(UsuarioCreates)
    \/ Login

SpecInitDb == InitStore /\ [][NextInitDb]_vars

\* user creations that interleave between their checks and their insert
NextConcurrente ==
    \/ RegistrarUsuarioComprueba(UsuarioCreate(Nombres, Emails, Passwords, {1, 2}))
    \/ CrearUsuarioComprueba(UsuarioCreate(Nombres, Emails, Passwords, {1, 2}))
    \/ InsertarUsuario
    \/ Login

SpecConcurrente == Init /\ [][NextConcurrente]_vars

\* ------------------------------------------------------------------------
\* Properties of the user routes
\* ------------------------------------------------------------------------
\* the stored row of the caller of a request
UserById(usuario_id) == CHOOSE u \in usuarios : u.id = usuario_id

\* the request just answered came from an authenticated caller
Authenticated(r) == r.caller # 0

\* C1: the user routes follow the authorization matrix. List, create and delete
\* are answered 403 exactly when the caller's rol_id is not 1; read and update
\* are answered 403 exactly when the caller is neither an administrator nor the
\* user named in the path; a 403 leaves the table usuarios as it was.
C1_UserAuthorizationMatrix ==
    [][ LET r == resp'
            admin == UserById(r.caller).rol_id = ADMIN
        IN /\ (r.op \in {"listar_usuarios", "crear_usuario", "eliminar_usuario"} /\ Authenticated(r))
                => IF admin THEN r.status # 403
                   ELSE r.status = 403 /\ usuarios' = usuarios
           /\ (r.op \in {"obtener_usuario", "actualizar_usuario"} /\ Authenticated(r))
                => IF admin \/ r.caller = r.arg THEN r.status # 403
                   ELSE r.status = 403 /\ usuarios' = usuarios
      ]_vars

\* a non-administrator was refused the update of another stored user
C1_Witness ==
    /\ resp.op = "actualizar_usuario"
    /\ resp.status = 403
    /\ \E u \in usuarios : u.id = resp.arg /\ u.id # resp.caller

\* C2: a new user row enters the table only through a request whose
\* authenticated caller has rol_id 1.
C2_UserCreationAdminOnly ==
    [][ (\E u \in usuarios' : \A v \in usuarios : v.id # u.id)
            => Authenticated(resp') /\ UserById(resp'.caller).rol_id = ADMIN
      ]_vars

\* the in-memory storage keeps the users in a list; of a user, the id and the
\* email are kept here. next_usuario_id is an id no stored user has.
usuarios_db == {<<u.id, u.email>> : u \in usuarios}

\* crear_usuario with the id of the new user taken from the length of the list
functions_crear_usuario_id_por_longitud(payload) ==
    IF \E u \in usuarios_db : u[2] = payload.email
    THEN [exc |-> "ValueError", usuarios_db |-> usuarios_db,
          usuarios |-> usuarios, next_usuario_id |-> seq.usuarios]
    ELSE IF Truthy(payload.rol_id) /\ payload.rol_id \notin RolIds
    THEN [exc |-> "KeyError", usuarios_db |-> usuarios_db,
          usuarios |-> usuarios, next_usuario_id |-> seq.usuarios]
    ELSE LET id == Cardinality(usuarios) + 1
         IN [exc |-> "none", usuarios_db |-> usuarios_db \cup {<<id, payload.email>>},
             usuarios |-> usuarios
                            \cup {[id |-> id, nombre |-> payload.nombre,
                                   email |-> payload.email,
                                   password |-> <<"plain", NoneStr, payload.password>>,
                                   rol_id |-> payload.rol_id]},
             next_usuario_id |-> seq.usuarios + 1]

\* crear_usuario of the in-memory storage: the new dict takes next_usuario_id
\* and the counter is advanced after the append; the password is stored as
\* given. usuarios holds the whole dicts, usuarios_db their ids and emails.
functions_crear_usuario(payload) ==
    IF \E u \in usuarios_db : u[2] = payload.email
    THEN [exc |-> "ValueError", usuarios_db |-> usuarios_db,
          usuarios |-> usuarios, next_usuario_id |-> seq.usuarios]
    ELSE IF Truthy(payload.rol_id) /\ payload.rol_id \notin RolIds
    THEN [exc |-> "KeyError", usuarios_db |-> usuarios_db,
          usuarios |-> usuarios, next_usuario_id |-> seq.usuarios]
    ELSE [exc |-> "none", usuarios_db |-> usuarios_db \cup {<<seq.usuarios, payload.email>>},
          usuarios |-> usuarios \cup {[id |-> seq.usuarios, nombre |-> payload.nombre,
                                       email |-> payload.email,
                                       password |-> <<"plain", NoneStr, payload.password>>,
                                       rol_id |-> payload.rol_id]},
          next_usuario_id |-> seq.usuarios + 1]

functions_actualizar_usuario(usuario_id, payload) ==
    IF ~ \E u \in usuarios_db : u[1] = usuario_id
    THEN [exc |-> "KeyError", usuarios_db |-> usuarios_db]
    ELSE IF payload.email # NoneStr
            /\ \E u \in usuarios_db : u[2] = payload.email /\ u[1] # usuario_id
    THEN [exc |-> "ValueError", usuarios_db |-> usuarios_db]
    ELSE IF Truthy(payload.rol_id) /\ payload.rol_id \notin RolIds
    THEN [exc |-> "KeyError", usuarios_db |-> usuarios_db]
    ELSE [exc |-> "none",
          usuarios_db |-> {IF u[1] = usuario_id /\ payload.email # NoneStr
                           THEN <<u[1], payload.email>> ELSE u : u \in usuarios_db}]

EmailsUnicos(db) == \A u, v \in db : u[2] = v[2] => u = v

\* C10: no two stored users share an email; creating a user with a stored
\* email, or moving a user onto the email of another user, is a validation
\* failure (ValueError, answered 400) that stores nothing; an update that
\* names the user's own email is accepted and changes nothing. The create and
\* the update of the in-memory storage refuse and accept the same emails.
C10_EmailsUnique ==
    /\ \A u, v \in usuarios : u.email = v.email => u = v
    /\ \A u \in usuarios, salt \in Salts, rol_id \in {NoneInt, 0, 1, 2, 3, 4} :
        LET payload == [nombre |-> "n1", email |-> u.email, password |-> "p1", rol_id |-> rol_id]
        IN /\ crear_usuario_con_hash(payload, get_password_hash("p1", salt)).exc = "ValueError"
           /\ registrar_usuario(payload, salt).status = 400
           /\ registrar_usuario(payload, salt).usuarios = usuarios
           /\ \A a \in usuarios : a.rol_id = ADMIN =>
                /\ crear_usuario(a, payload, salt).status = 400
                /\ crear_usuario(a, payload, salt).usuarios = usuarios
    /\ \A u, v \in usuarios, rol_id \in {NoneInt, 0, 1, 2, 3, 4}, nombre \in {NoneStr, "n2"} :
        LET payload == [nombre |-> nombre, email |-> v.email, rol_id |-> rol_id]
        IN u # v =>
            /\ update_usuario(u.id, payload).exc = "ValueError"
            /\ actualizar_usuario(u, u.id, payload).status = 400
            /\ actualizar_usuario(u, u.id, payload).usuarios = usuarios
    /\ \A u \in usuarios :
        LET payload == [nombre |-> NoneStr, email |-> u.email, rol_id |-> NoneInt]
        IN /\ update_usuario(u.id, payload).exc = "none"
           /\ actualizar_usuario(u, u.id, payload).status = 200
           /\ actualizar_usuario(u, u.id, payload).usuarios = usuarios
           /\ functions_actualizar_usuario(u.id, payload).exc = "none"
    /\ \A payload \in UsuarioCreates :
        /\ EmailsUnicos(functions_crear_usuario(payload).usuarios_db)
        /\ (\E u \in usuarios : u.email = payload.email)
             => functions_crear_usuario(payload).exc = "ValueError"
    /\ \A u \in usuarios, payload \in UsuarioUpdates :
        /\ EmailsUnicos(functions_actualizar_usuario(u.id, payload).usuarios_db)
        /\ (\E v \in usuarios : v.email = payload.email /\ v # u)
             => functions_actualizar_usuario(u.id, payload).exc = "ValueError"

\* the update of a user onto the email of the other stored user was refused
C10_Witness ==
    /\ Cardinality(usuarios) = 2
    /\ resp.op = "actualizar_usuario"
    /\ resp.status = 400

\* ------------------------------------------------------------------------
\* Properties of the routes of tareas, cronograma and estado_animo
\* ------------------------------------------------------------------------
OpsObtener == {"obtener_tarea", "obtener_cronograma", "obtener_estado_animo"}
OpsActualizar == {"actualizar_tarea", "actualizar_cronograma", "actualizar_estado_animo"}
OpsEliminar == {"eliminar_tarea", "eliminar_cronograma", "eliminar_estado_animo"}
OpsCrear == {"crear_tarea", "crear_cronograma", "crear_estado_animo"}
OpsListar == {"listar_tareas", "listar_cronograma", "listar_estados_animo"}

\* the stored rows of the table a request is about
Tabla(op) ==
    IF op \in {"listar_tareas", "obtener_tarea", "crear_tarea", "actualizar_tarea", "eliminar_tarea"}
    THEN tareas
    ELSE IF op \in {"listar_cronograma", "obtener_cronograma", "crear_cronograma",
                    "actualizar_cronograma", "eliminar_cronograma"}
    THEN cronograma
    ELSE estado_animo

registros == <<tareas, cronograma, estado_animo>>

\* C3: reading, updating or deleting a stored task, schedule event or mood
\* entry by id succeeds only for an administrator or the owner of the record;
\* any other caller is answered 403 and the three tables are left as they were.
C3_OwnerOrAdminById ==
    [][ LET r == resp'
        IN (r.op \in OpsObtener \cup OpsActualizar \cup OpsEliminar /\ Authenticated(r))
            => \A x \in Tabla(r.op) : x.id = r.arg =>
                 IF UserById(r.caller).rol_id = ADMIN \/ x.usuario_id = r.caller
                 THEN r.status # 403
                 ELSE r.status = 403 /\ registros' = registros
      ]_vars

\* a caller who is neither administrator nor owner was refused the delete of a
\* stored task, which is still stored
C3_Witness ==
    /\ resp.op = "eliminar_tarea"
    /\ resp.status = 403
    /\ \E t \in tareas : t.id = resp.arg /\ t.usuario_id # resp.caller

\* C4: a list request of a caller who is not an administrator returns the rows
\* owned by the caller, whatever usuario_id was sent; for an administrator it
\* returns all rows, or the rows of the requested usuario_id when one is given.
C4_ListScoping ==
    [][ LET r == resp'
        IN (r.op \in OpsListar /\ Authenticated(r))
            => r.body = IF UserById(r.caller).rol_id # ADMIN
                        THEN {x \in Tabla(r.op) : x.usuario_id = r.caller}
                        ELSE IF r.arg = NoneInt
                        THEN Tabla(r.op)
                        ELSE {x \in Tabla(r.op) : x.usuario_id = r.arg}
      ]_vars

\* C5: a create request of a caller who is not an administrator and names
\* another usuario_id is answered 403 and stores nothing; a stored record
\* belongs to the usuario_id of the payload, so a record for another user is
\* created only by an administrator.
C5_CreateOwnerOnlyTarget ==
    [][ LET r == resp'
        IN (r.op \in OpsCrear /\ Authenticated(r))
            => /\ IF UserById(r.caller).rol_id = ADMIN \/ r.arg = r.caller
                  THEN r.status # 403
                  ELSE r.status = 403 /\ registros' = registros /\ seq' = seq
               /\ r.status = 201 =>
                    /\ \A x \in r.body : x.usuario_id = r.arg
                    /\ r.body # {}
                    /\ (r.arg # r.caller => UserById(r.caller).rol_id = ADMIN)
      ]_vars

\* a caller who is not an administrator was refused a schedule event for
\* another stored user
C5_Witness ==
    /\ resp.op = "crear_cronograma"
    /\ resp.status = 403
    /\ resp.arg # resp.caller
    /\ \E u \in usuarios : u.id = resp.arg

\* ------------------------------------------------------------------------
\* Properties of the routes of tutorias and their participants
\* ------------------------------------------------------------------------
\* C6: listing and reading tutoring sessions is never refused to an
\* authenticated caller; creating and updating are answered 403 exactly when
\* the caller's rol_id is neither 1 nor 3, deleting exactly when it is not 1; a
\* 403 leaves the sessions and their participations as they were.
C6_TutoriasRoles ==
    [][ LET r == resp'
            rol_id == UserById(r.caller).rol_id
            sin_cambio == tutorias' = tutorias /\ usuario_tutorias' = usuario_tutorias
        IN Authenticated(r) =>
            /\ r.op = "listar_tutorias" => r.status = 200 /\ sin_cambio
            /\ r.op = "obtener_tutoria" => r.status \in {200, 404} /\ sin_cambio
            /\ r.op \in {"crear_tutoria", "actualizar_tutoria"}
                => IF rol_id \in {ADMIN, TUTOR} THEN r.status # 403
                   ELSE r.status = 403 /\ sin_cambio
            /\ r.op = "eliminar_tutoria"
                => IF rol_id = ADMIN THEN r.status # 403
                   ELSE r.status = 403 /\ sin_cambio
      ]_vars

\* a tutor was refused the delete of a stored session
C6_Witness ==
    /\ resp.op = "eliminar_tutoria"
    /\ resp.status = 403
    /\ \E u \in usuarios : u.id = resp.caller /\ u.rol_id = TUTOR
    /\ \E t \in tutorias : t.id = resp.arg

\* C7: adding or removing a participation is answered 403 exactly when the
\* caller is not an administrator and the usuario_id of the request is not the
\* caller's id, and then the participations are left as they were; a
\* participation that is added or removed is the one of the usuario_id of the
\* request.
C7_ParticipacionPropiaOAdmin ==
    [][ LET r == resp'
            admin == UserById(r.caller).rol_id = ADMIN
        IN (r.op \in {"agregar_usuario_tutoria", "remover_usuario_tutoria"} /\ Authenticated(r))
            => /\ IF admin \/ r.arg = r.caller THEN r.status # 403
                  ELSE r.status = 403 /\ usuario_tutorias' = usuario_tutorias
               /\ \A ut \in (usuario_tutorias' \ usuario_tutorias)
                              \cup (usuario_tutorias \ usuario_tutorias') :
                    /\ ut.usuario_id = r.arg
                    /\ admin \/ ut.usuario_id = r.caller
      ]_vars

\* a caller who is not an administrator was refused the removal of the stored
\* participation of another user
C7_Witness ==
    /\ resp.op = "remover_usuario_tutoria"
    /\ resp.status = 403
    /\ \E ut \in usuario_tutorias : ut.usuario_id = resp.arg /\ ut.usuario_id # resp.caller

\* ------------------------------------------------------------------------
\* Properties of the cascades
\* ------------------------------------------------------------------------
\* the in-memory storage keeps the same rows in lists; its two deleting
\* functions filter the lists themselves
functions_eliminar_usuario(usuario_id) ==
    IF {u \in usuarios : u.id = usuario_id} = {}
    THEN [exc |-> "KeyError", usuarios |-> usuarios, tareas |-> tareas,
          cronograma |-> cronograma, estado_animo |-> estado_animo,
          usuario_tutorias |-> usuario_tutorias]
    ELSE [exc |-> "none",
          tareas |-> {t \in tareas : t.usuario_id # usuario_id},
          cronograma |-> {c \in cronograma : c.usuario_id # usuario_id},
          estado_animo |-> {e \in estado_animo : e.usuario_id # usuario_id},
          usuario_tutorias |-> {ut \in usuario_tutorias : ut.usuario_id # usuario_id},
          usuarios |-> usuarios \ {CHOOSE u \in usuarios : u.id = usuario_id}]

functions_eliminar_tutoria(tutoria_id) ==
    IF {t \in tutorias : t.id = tutoria_id} = {}
    THEN [exc |-> "KeyError", tutorias |-> tutorias, usuario_tutorias |-> usuario_tutorias]
    ELSE [exc |-> "none",
          usuario_tutorias |-> {ut \in usuario_tutorias : ut.tutoria_id # tutoria_id},
          tutorias |-> tutorias \ {CHOOSE t \in tutorias : t.id = tutoria_id}]

\* C8: a delete of user U answered 200 removes U and exactly the tasks,
\* schedule events, mood entries and participations whose usuario_id is U; the
\* rows of the other users and all tutoring sessions are as they were, and the
\* in-memory storage deletes the same rows.
C8_DeleteUsuarioCascade ==
    [][ LET r == resp'
        IN (r.op = "eliminar_usuario" /\ r.status = 200)
            => /\ r.arg \in UsuarioIds
               /\ usuarios' = {u \in usuarios : u.id # r.arg}
               /\ tareas' = {t \in tareas : t.usuario_id # r.arg}
               /\ cronograma' = {c \in cronograma : c.usuario_id # r.arg}
               /\ estado_animo' = {e \in estado_animo : e.usuario_id # r.arg}
               /\ usuario_tutorias' = {ut \in usuario_tutorias : ut.usuario_id # r.arg}
               /\ tutorias' = tutorias
               /\ functions_eliminar_usuario(r.arg) = delete_usuario(r.arg)
               /\ \A x \in tareas' : x.usuario_id # r.arg
               /\ \A x \in cronograma' : x.usuario_id # r.arg
               /\ \A x \in estado_animo' : x.usuario_id # r.arg
               /\ \A x \in usuario_tutorias' : x.usuario_id # r.arg
      ]_vars

\* a user was deleted: a row that had been created is gone with its owner,
\* while a row of another user is still stored
C8_Witness ==
    /\ resp.op = "eliminar_usuario"
    /\ resp.status = 200
    /\ RegistrosCreados(seq)
         > Cardinality(tareas) + Cardinality(cronograma) + Cardinality(estado_animo)
    /\ \/ tareas # {}
       \/ cronograma # {}
       \/ estado_animo # {}
       \/ usuario_tutorias # {}

\* C9: a delete of session S answered 200 removes S and exactly the
\* participations whose tutoria_id is S; the users, the other sessions, the
\* participations of the other sessions and the rows of the users are as they
\* were, and the in-memory storage deletes the same rows.
C9_DeleteTutoriaCascade ==
    [][ LET r == resp'
        IN (r.op = "eliminar_tutoria" /\ r.status = 200)
            => /\ r.arg \in TutoriaIds
               /\ tutorias' = {t \in tutorias : t.id # r.arg}
               /\ usuario_tutorias' = {ut \in usuario_tutorias : ut.tutoria_id # r.arg}
               /\ \A ut \in usuario_tutorias' : ut.tutoria_id # r.arg
               /\ usuarios' = usuarios
               /\ registros' = registros
               /\ functions_eliminar_tutoria(r.arg) = delete_tutoria(r.arg)
      ]_vars

\* a session was deleted while another session, with a participant, is still
\* stored
C9_Witness ==
    /\ resp.op = "eliminar_tutoria"
    /\ resp.status = 200
    /\ \E t \in tutorias : \E ut \in usuario_tutorias : ut.tutoria_id = t.id

\* ------------------------------------------------------------------------
\* Properties of the service layer
\* ------------------------------------------------------------------------
\* the datetimes a client can send
Fechas == 0 .. 4

\* C11: every stored schedule event has fecha_inicio < fecha_fin; a create with
\* fecha_inicio >= fecha_fin is a ValueError that stores nothing, and an update
\* is validated on the merged record: a fecha_fin alone that is not after the
\* stored fecha_inicio, or a fecha_inicio alone that is not before the stored
\* fecha_fin, is a ValueError (answered 400) and the table keeps the old row.
C11_CronogramaFechas ==
    /\ \A c \in cronograma : c.fecha_inicio < c.fecha_fin
    /\ \A u \in usuarios, i \in Fechas, f \in Fechas :
        LET evento == [titulo |-> "t1", descripcion |-> NoneStr, fecha_inicio |-> i,
                       fecha_fin |-> f, usuario_id |-> u.id]
            r == create_cronograma(evento)
        IN IF i >= f
           THEN r.exc = "ValueError" /\ r.cronograma = cronograma /\ r.seq = seq
           ELSE r.exc = "none" /\ \A c \in r.cronograma : c.fecha_inicio < c.fecha_fin
    /\ \A c \in cronograma, i \in Fechas \cup {NoneInt}, f \in Fechas \cup {NoneInt} :
        LET payload == [titulo |-> NoneStr, descripcion |-> NoneStr, fecha_inicio |-> i,
                        fecha_fin |-> f]
            inicio == IF i # NoneInt THEN i ELSE c.fecha_inicio
            fin == IF f # NoneInt THEN f ELSE c.fecha_fin
            r == update_cronograma(c.id, payload)
            owner == CHOOSE u \in usuarios : u.id = c.usuario_id
        IN IF inicio >= fin
           THEN /\ r.exc = "ValueError"
                /\ r.cronograma = cronograma
                /\ actualizar_cronograma(owner, c.id, payload).status = 400
                /\ actualizar_cronograma(owner, c.id, payload).cronograma = cronograma
           ELSE /\ r.exc = "none"
                /\ \A x \in r.cronograma : x.fecha_inicio < x.fecha_fin

\* the update of a stored schedule event to a fecha_fin that is not after its
\* fecha_inicio was refused, and the event is stored as it was
C11_Witness ==
    /\ resp.op = "actualizar_cronograma"
    /\ resp.status = 400
    /\ \E c \in cronograma : c.id = resp.arg /\ c.fecha_inicio < c.fecha_fin

\* the in-memory storage keeps the participations in a list, here the bag of
\* its elements
usuario_tutorias_db == SetToBag(usuario_tutorias)

functions_agregar_usuario_tutoria(payload) ==
    IF ~ \E u \in usuarios : u.id = payload.usuario_id
    THEN [exc |-> "KeyError", usuario_tutorias_db |-> usuario_tutorias_db]
    ELSE IF ~ \E t \in tutorias : t.id = payload.tutoria_id
    THEN [exc |-> "KeyError", usuario_tutorias_db |-> usuario_tutorias_db]
    ELSE IF \E ut \in BagToSet(usuario_tutorias_db) :
                /\ ut.usuario_id = payload.usuario_id
                /\ ut.tutoria_id = payload.tutoria_id
                /\ ut.rol_en_tutoria = payload.rol_en_tutoria
    THEN [exc |-> "ValueError", usuario_tutorias_db |-> usuario_tutorias_db]
    ELSE [exc |-> "none", usuario_tutorias_db |-> usuario_tutorias_db (+) SetToBag({payload})]

\* C12: no participation is stored twice; adding a stored (usuario_id,
\* tutoria_id, rol_en_tutoria) is a ValueError, answered 400, that leaves the
\* participations as they were, while the same user is accepted in the same
\* session under the other role. The list of the in-memory storage never holds
\* two copies of a participation either.
C12_ParticipacionSinDuplicados ==
    /\ \A ut \in usuario_tutorias :
        /\ add_usuario_tutoria(ut).exc = "ValueError"
        /\ add_usuario_tutoria(ut).usuario_tutorias = usuario_tutorias
        /\ functions_agregar_usuario_tutoria(ut).exc = "ValueError"
        /\ \A a \in usuarios : (a.rol_id = ADMIN \/ a.id = ut.usuario_id) =>
              /\ agregar_usuario_tutoria(a, ut).status = 400
              /\ agregar_usuario_tutoria(a, ut).usuario_tutorias = usuario_tutorias
        /\ \A rol \in RolTutoria :
              LET otro == [ut EXCEPT !.rol_en_tutoria = rol]
              IN otro \notin usuario_tutorias =>
                    /\ add_usuario_tutoria(otro).exc = "none"
                    /\ add_usuario_tutoria(otro).usuario_tutorias = usuario_tutorias \cup {otro}
                    /\ Cardinality(add_usuario_tutoria(otro).usuario_tutorias)
                         = Cardinality(usuario_tutorias) + 1
                    /\ functions_agregar_usuario_tutoria(otro).exc = "none"
    /\ \A payload \in UsuarioTutoriaCreate(PathIds(seq.usuarios), PathIds(seq.tutorias)) :
        LET db == functions_agregar_usuario_tutoria(payload).usuario_tutorias_db
        IN \A ut \in BagToSet(db) : CopiesIn(ut, db) = 1

\* a participation that is stored was sent again and refused
C12_Witness ==
    /\ resp.op = "agregar_usuario_tutoria"
    /\ resp.status = 400
    /\ \E ut \in usuario_tutorias : ut.usuario_id = resp.arg

\* the field of a row after an update: the payload's value when it is given
Campo(dado, almacenado, none) == IF dado # none THEN dado ELSE almacenado

\* C13: a successful update of a user, task, schedule event, mood entry or
\* tutoring session sets exactly the fields the payload gives; the other fields
\* of the row, its id, its usuario_id and the user's password, every other row
\* of the table and every other table are as they were.
C13_UpdateSoloCamposDados ==
    [][ LET r == resp'
        IN r.status = 200 =>
            /\ r.op = "actualizar_usuario" =>
                /\ UNCHANGED <<tareas, cronograma, estado_animo, tutorias, usuario_tutorias>>
                /\ \A old \in UsuarioRow(r.arg) :
                     \A p \in UsuarioUpdate({NoneStr, "n2"}, {NoneStr} \cup Emails, {NoneInt, 0, 1, 2, 4}) :
                        LET o == update_usuario(old.id, p)
                        IN o.exc = "none" =>
                             o.usuarios = (usuarios \ {old}) \cup
                                 {[id |-> old.id, password |-> old.password,
                                   nombre |-> Campo(p.nombre, old.nombre, NoneStr),
                                   email |-> Campo(p.email, old.email, NoneStr),
                                   rol_id |-> Campo(p.rol_id, old.rol_id, NoneInt)]}
                /\ \E old \in UsuarioRow(r.arg), new \in usuarios' :
                     /\ usuarios' = (usuarios \ {old}) \cup {new}
                     /\ new.id = old.id /\ new.password = old.password
            /\ r.op = "actualizar_tarea" =>
                /\ UNCHANGED <<usuarios, cronograma, estado_animo, tutorias, usuario_tutorias>>
                /\ \A old \in get_tarea_by_id(r.arg) :
                     \A p \in [titulo : {NoneStr, "t2"}, descripcion : {NoneStr, "d2"},
                               fecha_entrega : {NoneInt, 3}, estado : {NoneStr} \cup EstadoTarea] :
                        LET o == update_tarea(old.id, p)
                        IN /\ o.exc = "none"
                           /\ o.tareas = (tareas \ {old}) \cup
                                 {[id |-> old.id, usuario_id |-> old.usuario_id,
                                   titulo |-> Campo(p.titulo, old.titulo, NoneStr),
                                   descripcion |-> Campo(p.descripcion, old.descripcion, NoneStr),
                                   fecha_entrega |-> Campo(p.fecha_entrega, old.fecha_entrega, NoneInt),
                                   estado |-> Campo(p.estado, old.estado, NoneStr)]}
                /\ \E old \in get_tarea_by_id(r.arg), new \in tareas' :
                     /\ tareas' = (tareas \ {old}) \cup {new}
                     /\ new.id = old.id /\ new.usuario_id = old.usuario_id
            /\ r.op = "actualizar_cronograma" =>
                /\ UNCHANGED <<usuarios, tareas, estado_animo, tutorias, usuario_tutorias>>
                /\ \A old \in get_cronograma_by_id(r.arg) :
                     \A p \in [titulo : {NoneStr, "t2"}, descripcion : {NoneStr, "d2"},
                               fecha_inicio : {NoneInt} \cup Fechas, fecha_fin : {NoneInt} \cup Fechas] :
                        LET o == update_cronograma(old.id, p)
                        IN o.exc = "none" =>
                             o.cronograma = (cronograma \ {old}) \cup
                                 {[id |-> old.id, usuario_id |-> old.usuario_id,
                                   titulo |-> Campo(p.titulo, old.titulo, NoneStr),
                                   descripcion |-> Campo(p.descripcion, old.descripcion, NoneStr),
                                   fecha_inicio |-> Campo(p.fecha_inicio, old.fecha_inicio, NoneInt),
                                   fecha_fin |-> Campo(p.fecha_fin, old.fecha_fin, NoneInt)]}
                /\ \E old \in get_cronograma_by_id(r.arg), new \in cronograma' :
                     /\ cronograma' = (cronograma \ {old}) \cup {new}
                     /\ new.id = old.id /\ new.usuario_id = old.usuario_id
            /\ r.op = "actualizar_estado_animo" =>
                /\ UNCHANGED <<usuarios, tareas, cronograma, tutorias, usuario_tutorias>>
                /\ \A old \in get_estado_animo_by_id(r.arg) :
                     \A p \in [estado : {NoneStr, "triste"}, comentario : {NoneStr, "c1"}] :
                        LET o == update_estado_animo(old.id, p)
                        IN /\ o.exc = "none"
                           /\ o.estado_animo = (estado_animo \ {old}) \cup
                                 {[id |-> old.id, usuario_id |-> old.usuario_id, fecha |-> old.fecha,
                                   estado |-> Campo(p.estado, old.estado, NoneStr),
                                   comentario |-> Campo(p.comentario, old.comentario, NoneStr)]}
                /\ \E old \in get_estado_animo_by_id(r.arg), new \in estado_animo' :
                     /\ estado_animo' = (estado_animo \ {old}) \cup {new}
                     /\ new.id = old.id /\ new.usuario_id = old.usuario_id /\ new.fecha = old.fecha
            /\ r.op = "actualizar_tutoria" =>
                /\ UNCHANGED <<usuarios, tareas, cronograma, estado_animo, usuario_tutorias>>
                /\ \A old \in TutoriaRow(r.arg) :
                     \A p \in [tema : {NoneStr, "m2"}, descripcion : {NoneStr, "d2"},
                               fecha : {NoneInt, 3}] :
                        LET o == update_tutoria(old.id, p)
                        IN /\ o.exc = "none"
                           /\ o.tutorias = (tutorias \ {old}) \cup
                                 {[id |-> old.id,
                                   tema |-> Campo(p.tema, old.tema, NoneStr),
                                   descripcion |-> Campo(p.descripcion, old.descripcion, NoneStr),
                                   fecha |-> Campo(p.fecha, old.fecha, NoneInt)]}
                /\ \E old \in TutoriaRow(r.arg), new \in tutorias' :
                     /\ tutorias' = (tutorias \ {old}) \cup {new}
                     /\ new.id = old.id
      ]_vars

\* a stored mood entry was updated and carries the comment of a payload, with
\* the estado and the fecha it was created with
C13_Witness ==
    /\ resp.op = "actualizar_estado_animo"
    /\ resp.status = 200
    /\ \E e \in estado_animo :
         e.id = resp.arg /\ e.comentario = "c1" /\ e.estado = "feliz" /\ e.fecha = Today

\* TareaBase.estado: a payload that leaves estado out is parsed with 'pendiente'
TareaBaseEstado(dado) == IF dado = NoneStr THEN "pendiente" ELSE dado

\* C14: the record a successful create returns is the record get-by-id returns
\* for its id right afterwards; it carries the payload's values and a new id,
\* a task whose payload leaves estado out has estado 'pendiente', and a mood
\* entry whose payload leaves fecha out has today's date.
C14_CreateDevuelveAlmacenado ==
    [][ LET r == resp'
        IN r.status = 201 =>
            /\ r.op = "crear_tarea" =>
                /\ r.body # {}
                /\ \A b \in r.body : b.id = seq.tareas /\ r.body = get_tarea_by_id(b.id)'
                /\ \A titulo \in {"t1", "t2"}, d \in {NoneStr, "d2"}, f \in {NoneInt} \cup Fechas,
                      e \in {NoneStr} \cup EstadoTarea :
                     LET o == create_tarea([titulo |-> titulo, descripcion |-> d,
                                            fecha_entrega |-> f, estado |-> TareaBaseEstado(e),
                                            usuario_id |-> r.arg])
                     IN /\ o.exc = "none"
                        /\ o.ret = {[id |-> seq.tareas, titulo |-> titulo, descripcion |-> d,
                                     fecha_entrega |-> f, usuario_id |-> r.arg,
                                     estado |-> IF e = NoneStr THEN "pendiente" ELSE e]}
                        /\ o.ret = {t \in o.tareas : t.id = seq.tareas}
            /\ r.op = "crear_cronograma" =>
                /\ r.body # {}
                /\ \A b \in r.body : b.id = seq.cronograma /\ r.body = get_cronograma_by_id(b.id)'
                /\ \A titulo \in {"t1", "t2"}, d \in {NoneStr, "d2"}, i \in Fechas, f \in Fechas :
                     LET o == create_cronograma([titulo |-> titulo, descripcion |-> d,
                                                 fecha_inicio |-> i, fecha_fin |-> f,
                                                 usuario_id |-> r.arg])
                     IN o.exc = "none" =>
                        /\ o.ret = {[id |-> seq.cronograma, titulo |-> titulo, descripcion |-> d,
                                     fecha_inicio |-> i, fecha_fin |-> f, usuario_id |-> r.arg]}
                        /\ o.ret = {c \in o.cronograma : c.id = seq.cronograma}
            /\ r.op = "crear_estado_animo" =>
                /\ r.body # {}
                /\ \A b \in r.body : b.id = seq.estado_animo /\ r.body = get_estado_animo_by_id(b.id)'
                /\ \A e \in {"feliz", "triste"}, c \in {NoneStr, "c1"}, f \in {NoneInt} \cup Fechas :
                     LET o == create_estado_animo([estado |-> e, comentario |-> c, fecha |-> f,
                                                   usuario_id |-> r.arg])
                     IN /\ o.exc = "none"
                        /\ o.ret = {[id |-> seq.estado_animo, estado |-> e, comentario |-> c,
                                     usuario_id |-> r.arg,
                                     fecha |-> IF f = NoneInt THEN Today ELSE f]}
                        /\ o.ret = {x \in o.estado_animo : x.id = seq.estado_animo}
            /\ r.op = "crear_tutoria" =>
                /\ r.body # {}
                /\ \A b \in r.body : b.id = seq.tutorias /\ r.body = get_tutoria_by_id(b.id)'
                /\ \A tema \in {"m1", "m2"}, d \in {NoneStr, "d2"}, f \in Fechas :
                     LET o == create_tutoria([tema |-> tema, descripcion |-> d, fecha |-> f])
                     IN /\ o.exc = "none"
                        /\ o.ret = {[id |-> seq.tutorias, tema |-> tema, descripcion |-> d,
                                     fecha |-> f, participantes |-> {}]}
                        /\ {[id |-> t.id, tema |-> t.tema, descripcion |-> t.descripcion,
                             fecha |-> t.fecha] : t \in o.ret}
                             = {t \in o.tutorias : t.id = seq.tutorias}
      ]_vars

\* a mood entry was created from a payload without fecha: the record returned
\* is the stored one and carries today's date
C14_Witness ==
    /\ resp.op = "crear_estado_animo"
    /\ resp.status = 201
    /\ \E b \in resp.body : b.fecha = Today /\ b \in estado_animo

\* ------------------------------------------------------------------------
\* Properties of the authentication routes
\* ------------------------------------------------------------------------
\* C15: a request that names a row that does not exist is answered 404 on every
\* route; in particular, whenever a user-creating route has answered, a payload
\* with a free email whose rol_id is no stored role is answered 404 by
\* POST /auth/register as by POST /usuarios of an administrator.
C15_RolInexistente404 ==
    [][ resp'.op \in {"registrar_usuario", "crear_usuario"} =>
          \A payload \in UsuarioCreates, salt \in Salts :
              ( /\ obtener_usuario_por_email(payload.email) = {}
                /\ payload.rol_id # NoneInt
                /\ payload.rol_id \notin RolIds ) =>
                  /\ registrar_usuario(payload, salt).status = 404
                  /\ \A u \in usuarios : u.rol_id = ADMIN =>
                        crear_usuario(u, payload, salt).status = 404
      ]_vars

\* C16: both login routes answer 200 and issue a token exactly when a stored
\* user has the given email and the given password verifies against its hash;
\* the token's subject is that user's email and user_info is that user's id,
\* nombre, email and rol_id. Otherwise the answer is 401 with no token, the
\* same for an unknown email as for a wrong password.
C16_LoginEmiteToken ==
    [][ resp'.op \in {"login", "login_form"} =>
          /\ UNCHANGED <<tables, emitidos, en_curso>>
          /\ resp'.status \in {200, 401}
          /\ resp'.status = 401 => tokens' = tokens /\ resp'.body = {}
          /\ resp'.status = 200 =>
                \E u \in usuarios :
                    /\ resp'.body = {[id |-> u.id, nombre |-> u.nombre,
                                      email |-> u.email, rol_id |-> u.rol_id]}
                    /\ tokens' = tokens \cup {u.email}
                    /\ \E password \in Passwords : verify_password(password, u.password)
          /\ \A email \in Emails \cup {"e9"}, password \in Passwords \cup {"wrong"} :
                LET ok == \E u \in usuarios : /\ u.email = email
                                             /\ verify_password(password, u.password)
                IN \A o \in {login(email, password), login_form(email, password)} :
                      /\ o.status = 200 <=> ok
                      /\ o.status = 401 <=> ~ok
                      /\ ok => /\ o.tokens = tokens \cup {email}
                               /\ \A b \in o.body : b.email = email
                      /\ ~ok => o = login("e9", password)
      ]_vars

\* a login with a stored email and a wrong password was answered 401, after a
\* token had been issued for a correct one
C16_Witness ==
    /\ resp.op = "login_form"
    /\ resp.status = 401
    /\ usuarios # {}
    /\ \E u \in usuarios : u.email \in tokens

\* the routes that take no current_user dependency
OpsSinToken == {"none", "registrar_usuario", "login", "login_form"}

C18_PasswordHasheado ==
    [][ /\ resp'.op \in {"registrar_usuario", "crear_usuario"} /\ resp'.status = 201 =>
            /\ \E u \in usuarios' :
                  /\ u.id = seq.usuarios
                  /\ usuarios' = usuarios \cup {u}
                  /\ \E password \in Passwords, salt \in Salts :
                        u.password = <<"pbkdf2_sha256", salt, password>>
            /\ \A u \in usuarios', password \in Passwords \cup {"p2", "wrong"} :
                  LET o == {login(u.email, password)', login_form(u.email, password)'}
                  IN \A r \in o : r.status = 200 <=> u.password[3] = password
            /\ \A payload \in UsuarioCreate({"n1"}, Emails, {"p1", "p2"}, {NoneInt, 1, 2}),
                  salt \in Salts, admin \in {u \in usuarios : u.rol_id = ADMIN} :
                  \A o \in {registrar_usuario(payload, salt), crear_usuario(admin, payload, salt)} :
                      o.status = 201 =>
                        \E u \in o.usuarios :
                            /\ o.usuarios = usuarios \cup {u}
                            /\ u.email = payload.email
                            /\ u.password[1] = "pbkdf2_sha256"
                            /\ u.password[3] = payload.password
                            /\ verify_password(payload.password, u.password)
                            /\ ~verify_password("wrong", u.password)
        /\ \A u \in usuarios' :
              \E password \in Passwords :
                  /\ login(u.email, password)'.status = 200
                  /\ login(u.email, password)'.body = {db_usuario_to_pydantic(u)}
      ]_vars

\* the second user created, with an administrator stored, has logged in with
\* the password it was created with
C18_Witness ==
    /\ resp.op = "login"
    /\ resp.status = 200
    /\ \E u \in usuarios : u.id = 2 /\ resp.body = {db_usuario_to_pydantic(u)}
    /\ \E a \in usuarios : a.id = 1 /\ a.rol_id = ADMIN

\* C19: a token that get_current_user accepts resolves to the user at whose
\* login it was issued (same id), never to another user.
C19_TokenIdentificaUsuario ==
    \A e \in emitidos :
        e.sub \in tokens => \A u \in get_current_user(e.sub) : u.id = e.id

\* C20: the rol_id of a stored user changes only through a request whose
\* authenticated caller has rol_id 1; a caller who is no administrator cannot
\* change its own rol_id through PUT /usuarios/{id}.
C20_RolesSoloAdmin ==
    [][ \A u \in usuarios, v \in usuarios' :
            (u.id = v.id /\ u.rol_id # v.rol_id)
                => Authenticated(resp') /\ UserById(resp'.caller).rol_id = ADMIN
      ]_vars

\* ------------------------------------------------------------------------
\* Properties of the statistics routes
\* ------------------------------------------------------------------------
\* C21: the answer a caller who is no administrator gets is the answer the
\* same request gets on the store without the tasks, events and mood entries
\* of the other users: the statistics routes, which take no token, count for
\* their caller no record at all, and a list of tasks holds the caller's only.
C21_NoObservaRegistrosAjenos ==
    [][ LET r == resp'
        IN /\ r.op = "estadisticas_generales" =>
                \A b \in r.body : /\ b.total_tareas = 0
                                  /\ b.total_eventos_cronograma = 0
                                  /\ b.total_registros_estado_animo = 0
           /\ r.op = "estadisticas_usuario" /\ r.status = 200 =>
                \A b \in r.body : /\ b.total_tareas = 0
                                  /\ b.eventos_cronograma = 0
                                  /\ b.registros_estado_animo = 0
           /\ (r.op = "listar_tareas" /\ r.status = 200
                 /\ UserById(r.caller).rol_id # ADMIN) =>
                \A t \in r.body : t.usuario_id = r.caller
      ]_vars

\* ------------------------------------------------------------------------
\* Properties of the order of checks, integrity and error paths
\* ------------------------------------------------------------------------
\* C22: GET, PUT and DELETE of a task, event or mood entry by an id that is
\* not stored are answered 404 for every authenticated caller, and 403 only for
\* an id that is stored; GET /usuarios/{id} answers a caller who is no
\* administrator 403 for every id but its own, stored or not.
C22_OrdenDeComprobaciones ==
    [][ LET r == resp'
        IN /\ (r.op \in OpsObtener \cup OpsActualizar \cup OpsEliminar /\ Authenticated(r)) =>
                /\ (\A x \in Tabla(r.op) : x.id # r.arg) => r.status = 404
                /\ r.status = 403 => \E x \in Tabla(r.op) : x.id = r.arg
           /\ \A u \in usuarios, usuario_id \in IdsUpTo(seq.usuarios) :
                (u.rol_id # ADMIN /\ usuario_id # u.id) =>
                    obtener_usuario(u, usuario_id).status = 403
      ]_vars

\* a caller who is no administrator asked for a task that had been deleted and
\* was answered 404
C22_Witness ==
    /\ resp.op = "obtener_tarea"
    /\ resp.status = 404
    /\ resp.arg < seq.tareas
    /\ \E u \in usuarios : u.id = resp.caller /\ u.rol_id # ADMIN

\* C23: every stored record refers to stored rows (the owner of a task, event
\* or mood entry, the user and the session of a participation, the role of a
\* user unless null), and a POST /usuarios of an administrator that names a
\* rol_id that is not stored is rejected as not found (or, the email being
\* taken, as a validation failure) and stores nothing.
C23_IntegridadReferencial ==
    [][ /\ \A x \in tareas' \cup cronograma' \cup estado_animo' :
              \E u \in usuarios' : u.id = x.usuario_id
        /\ \A ut \in usuario_tutorias' :
              /\ \E u \in usuarios' : u.id = ut.usuario_id
              /\ \E t \in tutorias' : t.id = ut.tutoria_id
        /\ \A u \in usuarios' : u.rol_id = NoneInt \/ \E r \in roles' : r.id = u.rol_id
        /\ ( /\ resp'.op = "crear_usuario"
             /\ Authenticated(resp')
             /\ UserById(resp'.caller).rol_id = ADMIN
             /\ resp'.arg # NoneInt
             /\ resp'.arg \notin RolIds ) =>
                /\ resp'.status \in {404, 400}
                /\ usuarios' = usuarios
      ]_vars

\* the in-memory storage keeps the events in a list of dicts, the rows of
\* cronograma here; the dict is assigned field by field before the dates are
\* compared
functions_actualizar_cronograma(cronograma_id, payload) ==
    IF {c \in cronograma : c.id = cronograma_id} = {}
    THEN [exc |-> "KeyError", cronograma |-> cronograma]
    ELSE LET old == CHOOSE c \in cronograma : c.id = cronograma_id
             new == [old EXCEPT
                       !.titulo = IF payload.titulo # NoneStr THEN payload.titulo ELSE @,
                       !.descripcion = IF payload.descripcion # NoneStr
                                       THEN payload.descripcion ELSE @,
                       !.fecha_inicio = IF payload.fecha_inicio # NoneInt
                                        THEN payload.fecha_inicio ELSE @,
                       !.fecha_fin = IF payload.fecha_fin # NoneInt
                                     THEN payload.fecha_fin ELSE @]
         IN [exc |-> IF new.fecha_inicio >= new.fecha_fin THEN "ValueError" ELSE "none",
             cronograma |-> (cronograma \ {old}) \cup {new}]

\* C24: an update of a schedule event that ends in not-found or in a
\* validation failure leaves every stored record as it was, in the database
\* service layer and in the in-memory variant.
C24_ErrorNoCambiaNada ==
    [][ (resp'.op = "actualizar_cronograma" /\ resp'.status \in {400, 404}) =>
            /\ UNCHANGED tables
            /\ \A payload \in CronogramaUpdates :
                  LET d == update_cronograma(resp'.arg, payload)
                      m == functions_actualizar_cronograma(resp'.arg, payload)
                  IN /\ d.exc # "none" => d.cronograma = cronograma
                     /\ m.exc # "none" => m.cronograma = cronograma
      ]_vars

\* C25: run on the same store, an operation of the in-memory variant and the
\* operation of the database service layer it corresponds to end the same way
\* (both succeed, or both raise the same kind of error) and leave the same
\* records: checked for the creation of a user and the update of an event.
C25_VarianteEnMemoriaEquivale ==
    [][ /\ resp'.op = "registrar_usuario" =>
              \A payload \in UsuarioCreatesCascada, salt \in Salts :
                  LET d == crear_usuario_con_hash(payload, get_password_hash(payload.password, salt))
                      m == functions_crear_usuario(payload)
                  IN /\ d.exc = m.exc
                     /\ {<<u.id, u.email>> : u \in d.usuarios} = m.usuarios_db
        /\ resp'.op = "actualizar_cronograma" =>
              \A payload \in CronogramaUpdates, cronograma_id \in PathIds(seq.cronograma) :
                  LET d == update_cronograma(cronograma_id, payload)
                      m == functions_actualizar_cronograma(cronograma_id, payload)
                  IN /\ d.exc = m.exc
                     /\ d.cronograma = m.cronograma
      ]_vars

\* ------------------------------------------------------------------------
\* Properties of the scripts
\* ------------------------------------------------------------------------
\* C26: a run of update_plain_passwords leaves the stored password of a user
\* unchanged when it is a hash produced by get_password_hash, and every login
\* that succeeded before the run succeeds after it.
C26_FixPasswordsConservaHashes ==
    [][ resp'.op = "update_plain_passwords" =>
          \A u \in usuarios :
              /\ u.password[1] = "pbkdf2_sha256" => u \in usuarios'
              /\ \A password \in Passwords :
                    login(u.email, password).status = 200
                        => login(u.email, password)'.status = 200
      ]_vars

\* C27: init_db called on a roles table without rows leaves exactly the three
\* default roles, with ids 1, 2, 3 in the order Administrador, Estudiante,
\* Tutor; called on a roles table with rows it leaves the table unchanged;
\* after it has run each of the three default roles is present, and running
\* it again changes nothing.
C27_InitDbIdempotente ==
    [][ resp'.op = "init_db" =>
          /\ roles = {} => roles' = roles_default
          /\ roles # {} => roles' = roles
          /\ \A d \in roles_default : \E r \in roles' : r.nombre = d.nombre
          /\ init_db' = roles'
      ]_vars

\* init_db has run on a store that already had roles: a user registered with
\* the role Estudiante is stored and the last step was a startup
C27_Witness ==
    /\ resp.op = "init_db"
    /\ roles = roles_default
    /\ \E u \in usuarios : u.rol_id = 2

\* ------------------------------------------------------------------------
\* Properties of interleaved requests
\* ------------------------------------------------------------------------
\* C28: however the checks and the inserts of user creations interleave, no
\* two stored users share an email, and a creation whose email has been taken
\* by the time of its insert is answered 400.
C28_CreacionConcurrente ==
    [][ /\ \A u, v \in usuarios' : u.email = v.email => u = v
        /\ \A req \in en_curso :
              (req \notin en_curso' /\ get_usuario_by_email(req.payload.email) # {})
                  => resp'.status = 400 /\ usuarios' = usuarios
      ]_vars

\* ------------------------------------------------------------------------
\* The in-memory storage: ids and counters
\* ------------------------------------------------------------------------
\* crear_cronograma of the in-memory storage
functions_crear_cronograma(payload) ==
    IF {u \in usuarios : u.id = payload.usuario_id} = {}
    THEN [exc |-> "KeyError", cronograma |-> cronograma, next_cronograma_id |-> seq.cronograma]
    ELSE IF payload.fecha_inicio >= payload.fecha_fin
    THEN [exc |-> "ValueError", cronograma |-> cronograma, next_cronograma_id |-> seq.cronograma]
    ELSE [exc |-> "none",
          cronograma |-> cronograma \cup {[id |-> seq.cronograma, titulo |-> payload.titulo,
                                           descripcion |-> payload.descripcion,
                                           fecha_inicio |-> payload.fecha_inicio,
                                           fecha_fin |-> payload.fecha_fin,
                                           usuario_id |-> payload.usuario_id]},
          next_cronograma_id |-> seq.cronograma + 1]

\* the exception a call of the in-memory storage ends with, as the status the
\* routes answer it with
ExcStatus(exc) == IF exc = "none" THEN 200 ELSE IF exc = "KeyError" THEN 404 ELSE 400

\* one call of crear_usuario; seq holds the next_*_id counters
FunctionsCrearUsuario ==
    \E payload \in UsuarioCreate({"n1"}, Emails, Passwords, {NoneInt, 0, 1, 4}) :
        LET o == functions_crear_usuario(payload)
        IN /\ seq.usuarios <= MaxUsuarios + 1
           /\ usuarios' = o.usuarios
           /\ seq' = [seq EXCEPT !.usuarios = o.next_usuario_id]
           /\ resp' = Response("functions_crear_usuario", ExcStatus(o.exc), 0, NoneInt, {})
           /\ UNCHANGED <<roles, tareas, cronograma, estado_animo, tutorias,
                          usuario_tutorias, tokens, emitidos, en_curso>>

\* one call of crear_cronograma
FunctionsCrearCronograma ==
    \E payload \in CronogramaCreate(IdsUpTo(seq.usuarios)) :
        LET o == functions_crear_cronograma(payload)
        IN /\ seq.cronograma <= MaxRegistros + 1
           /\ cronograma' = o.cronograma
           /\ seq' = [seq EXCEPT !.cronograma = o.next_cronograma_id]
           /\ resp' = Response("functions_crear_cronograma", ExcStatus(o.exc), 0,
                               payload.usuario_id, {})
           /\ UNCHANGED <<roles, usuarios, tareas, estado_animo, tutorias,
                          usuario_tutorias, tokens, emitidos, en_curso>>

\* one call of eliminar_usuario, which also drops the records of the user
FunctionsEliminarUsuario ==
    \E usuario_id \in PathIds(seq.usuarios) :
        LET o == functions_eliminar_usuario(usuario_id)
        IN /\ usuarios' = o.usuarios
           /\ tareas' = o.tareas
           /\ cronograma' = o.cronograma
           /\ estado_animo' = o.estado_animo
           /\ usuario_tutorias' = o.usuario_tutorias
           /\ resp' = Response("functions_eliminar_usuario", ExcStatus(o.exc), 0, usuario_id, {})
           /\ UNCHANGED <<roles, tutorias, seq, tokens, emitidos, en_curso>>

NextEnMemoria ==
    \/ FunctionsCrearUsuario
    \/ FunctionsCrearCronograma
    \/ FunctionsEliminarUsuario

SpecEnMemoria == Init /\ [][NextEnMemoria]_vars

\* C29: in the in-memory storage no two stored users and no two stored events
\* share an id; a counter never goes down and stays above every stored id, a
\* record that enters takes the value the counter had and the counter moves
\* past it, so that no id is handed out twice; a create that ends in an error
\* leaves the counter where it was.
C29_IdsUnicosNuncaReusados ==
    [][ /\ \A u, v \in usuarios' : u.id = v.id => u = v
        /\ \A c, d \in cronograma' : c.id = d.id => c = d
        /\ \A u \in usuarios' : u.id < seq'.usuarios
        /\ \A c \in cronograma' : c.id < seq'.cronograma
        /\ seq'.usuarios >= seq.usuarios /\ seq'.cronograma >= seq.cronograma
        /\ \A u \in usuarios' \ usuarios :
               u.id = seq.usuarios /\ seq'.usuarios = seq.usuarios + 1
        /\ \A c \in cronograma' \ cronograma :
               c.id = seq.cronograma /\ seq'.cronograma = seq.cronograma + 1
        /\ resp'.op \in {"functions_crear_usuario", "functions_crear_cronograma"}
              /\ resp'.status # 200 => seq' = seq
      ]_vars

\* a user was deleted and the next user created took a fresh id; the last
\* call was a create that failed
C29_Witness ==
    /\ resp.op = "functions_crear_usuario"
    /\ resp.status = 400
    /\ seq.usuarios = 3
    /\ {u.id : u \in usuarios} = {2}
    /\ \E c \in cronograma : c.id = 2

\* ------------------------------------------------------------------------
\* Properties of the list filters
\* ------------------------------------------------------------------------
\* C30: get_tareas, get_cronograma and get_estados_animo return exactly the
\* stored records that match every filter that was supplied: a filter that is
\* None restricts nothing and every other value, usuario_id 0 included,
\* restricts the result.
C30_FiltrosExactos ==
    \A usuario_id \in {NoneInt} \cup IdsUpTo(seq.usuarios) :
        /\ \A estado \in {NoneStr, "pendiente", "completada"} :
              get_tareas(usuario_id, estado)
                = {t \in tareas : /\ usuario_id # NoneInt => t.usuario_id = usuario_id
                                  /\ estado # NoneStr => t.estado = estado}
        /\ \A desde, hasta \in {NoneInt, 1, 2} :
              /\ get_cronograma(usuario_id, desde, hasta)
                   = {c \in cronograma :
                         /\ usuario_id # NoneInt => c.usuario_id = usuario_id
                         /\ desde # NoneInt => c.fecha_inicio >= desde
                         /\ hasta # NoneInt => c.fecha_fin <= hasta}
              /\ get_estados_animo(usuario_id, desde, hasta)
                   = {e \in estado_animo :
                         /\ usuario_id # NoneInt => e.usuario_id = usuario_id
                         /\ desde # NoneInt => e.fecha >= desde
                         /\ hasta # NoneInt => e.fecha <= hasta}

====
